---- MODULE Spec2Model ----
(***************************************************************************)
(* A model of goshield (src/goshield.go): the name allocator, the literal  *)
(* encoders, the tree rename passes and the text sweeps of main().         *)
(*                                                                         *)
(* Source text is modelled as TLA+ strings (sequences of ASCII bytes).     *)
(* The value of a string literal is a sequence of byte values 0..255.      *)
(* The random source is a stream of raw draws; rand.Intn(n) is the next    *)
(* raw draw reduced modulo n.                                              *)
(***************************************************************************)
EXTENDS Integers, Sequences, FiniteSets, TLC

VARIABLES
    rng,        \* the stream of raw draws fixed by rand.Seed
    rpos,       \* number of draws consumed so far
    nameMap,    \* var nameMap: the slots of the map, <<[orig, repl], ...>>
    lastCall,   \* the last getObfuscatedName call: name, result, tries
    lit,        \* a literal encoder's call: function, input, result
    pc,         \* the statement of main() to execute next
    run,        \* which execution of the program this is (1 or 2)
    flags,      \* the command-line toggles
    prog,       \* which input file is being processed
    file,       \* obf.file: the parsed file
    obf,        \* obf: the maps of the Obfuscator
    structTypeMapping,  \* var structTypeMapping
    typeAliasMapping,   \* var typeAliasMapping
    output,     \* the text of the output file
    first       \* what the first execution left: output text and nameMap

allocVars == <<rng, rpos, nameMap, lastCall>>
litVars == <<lit>>
pipeVars == <<pc, run, flags, prog, file, obf, structTypeMapping, typeAliasMapping,
              output, first>>
vars == <<rng, rpos, nameMap, lastCall, lit, pc, run, flags, prog, file, obf,
          structTypeMapping, typeAliasMapping, output, first>>

-----------------------------------------------------------------------------
(* Bounds of the model *)

\* generateObfuscatedName(20) in the source; names of NameLen runes here
NameLen == 2
\* length of the explored draw streams of the allocator specification
StreamLen == 8

\* length of the draw streams of the executions of main()
PipeStreamLen == 80
\* the count of candidates of one call saturates at MaxTries
MaxTries == 2

\* raw draws of the allocator specification
RawDraws == {0, 1}
\* original names handed to the allocator
AllocNames == {"msg", "count", "helper"}
\* random starting offsets of a range over the map's slots
IterOffsets == 0..2

\* string values handed to the string encoders: at most MaxStrLen bytes
MaxStrLen == 3
\* tab, ", %, 5, d, the two bytes of U+00E9, and a byte no encoding holds
StrBytes == {9, 34, 37, 53, 100, 195, 169, 255}
\* raw draws of rand.Intn(50) explored by the string encoders
OffsetDraws == {0, 9, 49}
\* int64 values handed to the integer encoder
IntInputs ==
    {"0", "11", "42", "100000", "-7",
     "838488366986797800", "4611686018427387904",
     "9223372036854775807", "-9223372036854775808"}
\* raw draws of rand.Int63n explored by the integer encoder
Int63Draws == 0..999

-----------------------------------------------------------------------------
(* Generic helpers *)

Min(a, b) == IF a < b THEN a ELSE b
Max(a, b) == IF a > b THEN a ELSE b

\* the i-th character of a string, as a one-character string
Ch(s, i) == SubSeq(s, i, i)

-----------------------------------------------------------------------------
(* Bytes, runes and numerals *)

\* The backquote, which a TLA+ string cannot hold, is written as a form feed.
BQ == "\f"

\* the printable ASCII characters, byte values 32..126 in order
Ascii ==
    " !\"#$%&'()*+,-./0123456789:;<=>?@ABCDEFGHIJKLMNOPQRSTUVWXYZ[\\]^_"
    \o BQ \o "abcdefghijklmnopqrstuvwxyz{|}~"

\* the character of a printable byte (fmt's %c of an ASCII rune)
Chr(b) == Ch(Ascii, b - 31)
\* the byte of a character of source text
Ord(c) ==
    IF c = "\n" THEN 10
    ELSE IF c = "\t" THEN 9
    ELSE 31 + (CHOOSE i \in 1..Len(Ascii) : Ch(Ascii, i) = c)

HexDigits == "0123456789abcdef"
DigitVal(c) == (CHOOSE i \in 1..Len(HexDigits) : Ch(HexDigits, i) = c) - 1
IsDigit(c) == \E i \in 1..10 : Ch(HexDigits, i) = c

\* fmt's %d and %x of an int
RECURSIVE FmtBase(_, _)
FmtBase(n, base) ==
    IF n < 0 THEN "-" \o FmtBase(0 - n, base)
    ELSE IF n < base THEN Ch(HexDigits, n + 1)
    ELSE FmtBase(n \div base, base) \o Ch(HexDigits, (n % base) + 1)
FmtDec(n) == FmtBase(n, 10)
FmtHex(n) == FmtBase(n, 16)

\* the value of a run of digits in a base
RECURSIVE DigitsVal(_, _, _)
DigitsVal(u, base, acc) ==
    IF u = "" THEN acc
    ELSE DigitsVal(SubSeq(u, 2, Len(u)), base, acc * base + DigitVal(Ch(u, 1)))

\* the value of an integer literal of the language: 0x.. is hexadecimal, a
\* leading 0 makes it octal, a leading - negates
RECURSIVE LitVal(_)
LitVal(u) ==
    IF Ch(u, 1) = "-" THEN 0 - LitVal(SubSeq(u, 2, Len(u)))
    ELSE IF Len(u) > 2 /\ SubSeq(u, 1, 2) = "0x" THEN DigitsVal(SubSeq(u, 3, Len(u)), 16, 0)
    ELSE IF Len(u) > 1 /\ Ch(u, 1) = "0" THEN DigitsVal(SubSeq(u, 2, Len(u)), 8, 0)
    ELSE DigitsVal(u, 10, 0)

RuneError == 65533
MaxRune == 1114111

IsCont(s, i) == i <= Len(s) /\ s[i] >= 128 /\ s[i] <= 191
InRange(s, i, lo, hi) == i <= Len(s) /\ s[i] >= lo /\ s[i] <= hi

\* the rune and width that a range over a string yields at byte i: an
\* invalid or truncated encoding yields RuneError and width 1
DecodeRune(s, i) ==
    LET b == s[i]
        bad == [r |-> RuneError, size |-> 1]
    IN  IF b < 128 THEN [r |-> b, size |-> 1]
        ELSE IF b >= 194 /\ b <= 223 THEN
            IF IsCont(s, i + 1)
            THEN [r |-> (b - 192) * 64 + (s[i + 1] - 128), size |-> 2]
            ELSE bad
        ELSE IF b >= 224 /\ b <= 239 THEN
            IF /\ InRange(s, i + 1, IF b = 224 THEN 160 ELSE 128,
                                    IF b = 237 THEN 159 ELSE 191)
               /\ IsCont(s, i + 2)
            THEN [r |-> (b - 224) * 4096 + (s[i + 1] - 128) * 64 + (s[i + 2] - 128),
                  size |-> 3]
            ELSE bad
        ELSE IF b >= 240 /\ b <= 244 THEN
            IF /\ InRange(s, i + 1, IF b = 240 THEN 144 ELSE 128,
                                    IF b = 244 THEN 143 ELSE 191)
               /\ IsCont(s, i + 2)
               /\ IsCont(s, i + 3)
            THEN [r |-> (b - 240) * 262144 + (s[i + 1] - 128) * 4096
                        + (s[i + 2] - 128) * 64 + (s[i + 3] - 128),
                  size |-> 4]
            ELSE bad
        ELSE bad

\* the runes of for _, r := range s
RECURSIVE Runes(_, _)
Runes(s, i) ==
    IF i > Len(s) THEN <<>>
    ELSE LET d == DecodeRune(s, i) IN <<d.r>> \o Runes(s, i + d.size)

\* the bytes of the conversion string(r) of an integer r
EncodeRune(r0) ==
    LET r == IF r0 < 0 \/ r0 > MaxRune \/ (r0 >= 55296 /\ r0 <= 57343)
             THEN RuneError ELSE r0
    IN  IF r < 128 THEN <<r>>
        ELSE IF r < 2048 THEN <<192 + (r \div 64), 128 + (r % 64)>>
        ELSE IF r < 65536
             THEN <<224 + (r \div 4096), 128 + ((r \div 64) % 64), 128 + (r % 64)>>
        ELSE <<240 + (r \div 262144), 128 + ((r \div 4096) % 64),
               128 + ((r \div 64) % 64), 128 + (r % 64)>>

\* strings.Join(parts, sep)
RECURSIVE Join(_, _)
Join(parts, sep) ==
    IF Len(parts) = 0 THEN ""
    ELSE IF Len(parts) = 1 THEN parts[1]
    ELSE parts[1] \o sep \o Join(Tail(parts), sep)

\* the least element of a non-empty set of numbers
SetMin(S) == CHOOSE x \in S : \A y \in S : x <= y

\* the first index >= i of character c in t, or 0
IndexFrom(t, c, i) ==
    LET S == {j \in i..Len(t) : Ch(t, j) = c}
    IN  IF S = {} THEN 0 ELSE SetMin(S)

\* the bytes of the characters of a piece of source text
TextBytes(t) == [i \in 1..Len(t) |-> Ord(Ch(t, i))]

-----------------------------------------------------------------------------
(* Name generation: src/goshield.go 66-164 *)

\* rand.Intn(n) on the raw draw
Intn(n, raw) == raw % n

letters == "abcdefghijklmnopqrstuvwxyzABCDEFGHIJKLMNOPQRSTUVWXYZ"

\* The confusable table. A Cyrillic lookalike is a two-byte rune; it is
\* written "~" (its lead byte, which no pass inspects) and the Latin twin.
obfuscationChars ==
    << "O", "0", "o",
       "l", "I", "1",
       "a", "~a",
       "e", "~e",
       "p", "~p",
       "c", "~c",
       "x", "~x",
       "y", "~y",
       "k", "~k",
       "B", "~B",
       "H", "~H",
       "M", "~M",
       "T", "~T" >>

RECURSIVE GenTail(_, _, _, _)
GenTail(i, length, rs, pos) ==
    IF i >= length THEN ""
    ELSE obfuscationChars[Intn(Len(obfuscationChars), rs[pos + i + 1]) + 1]
         \o GenTail(i + 1, length, rs, pos)

\* generateObfuscatedName(length), drawing rs[pos+1 .. pos+length]
generateObfuscatedName(length, rs, pos) ==
    Ch(letters, Intn(Len(letters), rs[pos + 1]) + 1) \o GenTail(1, length, rs, pos)

\* nameMap[original], ok
MapHas(m, k) == \E i \in 1..Len(m) : m[i].orig = k
MapGet(m, k) == m[CHOOSE i \in 1..Len(m) : m[i].orig = k].repl
\* nameMap[original] = v
MapPut(m, k, v) ==
    IF MapHas(m, k)
    THEN [i \in 1..Len(m) |-> IF m[i].orig = k THEN [orig |-> k, repl |-> v] ELSE m[i]]
    ELSE Append(m, [orig |-> k, repl |-> v])
MapKeys(m) == {m[i].orig : i \in 1..Len(m)}
MapValues(m) == {m[i].repl : i \in 1..Len(m)}

\* the slot visited at step i (1-based) of a range that starts at offset off
RangeSlot(m, off, i) == ((off + i - 1) % Len(m)) + 1

\* mutant: the collision check finds nothing
ExistsValueNever(m, newName, off, i) == FALSE

\* mutant: the collision check looks at the first slot visited only
ExistsValueFirstOnly(m, newName, off, i) ==
    Len(m) > 0 /\ m[RangeSlot(m, off, 1)].repl = newName

\* mutant: the collision check reports every candidate as issued
ExistsValueAlways(m, newName, off, i) == TRUE

\* for _, v := range nameMap { if v == newName { exists = true; break } }
RECURSIVE ExistsValue(_, _, _, _)
ExistsValue(m, newName, off, i) ==
    IF i > Len(m) THEN FALSE
    ELSE IF m[RangeSlot(m, off, i)].repl = newName THEN TRUE
    ELSE ExistsValue(m, newName, off, i + 1)

\* the for loop of getObfuscatedName; ok is FALSE when the explored stream
\* ends before a free candidate is drawn
RECURSIVE AllocLoop(_, _, _, _, _)
AllocLoop(m, original, rs, pos, off) ==
    IF pos + NameLen > Len(rs)
    THEN [nameMap |-> m, name |-> "", pos |-> pos, ok |-> FALSE]
    ELSE LET newName == generateObfuscatedName(NameLen, rs, pos)
         IN  IF ExistsValue(m, newName, off, 1)
             THEN AllocLoop(m, original, rs, pos + NameLen, off)
             ELSE [nameMap |-> MapPut(m, original, newName), name |-> newName,
                   pos |-> pos + NameLen, ok |-> TRUE]

\* mutant: no lookup of an existing mapping
getObfuscatedNameNoMemo(m, original, rs, pos, off) ==
    AllocLoop(m, original, rs, pos, off)

getObfuscatedName(m, original, rs, pos, off) ==
    IF MapHas(m, original)
    THEN [nameMap |-> m, name |-> MapGet(m, original), pos |-> pos, ok |-> TRUE]
    ELSE AllocLoop(m, original, rs, pos, off)

-----------------------------------------------------------------------------
(* String obfuscation: src/goshield.go 170-238 *)

\* fmt.Sprintf("string(%d)", r)
PartDec(r) == "string(" \o FmtDec(r) \o ")"

\* one iteration of the loop over the runes of s: the part appended for
\* rune r and the position in the draw stream after it
StringPart(r, rs, pos) ==
    LET strategy == Intn(4, rs[pos + 1])
    IN  IF strategy = 0 THEN [part |-> PartDec(r), pos |-> pos + 1]
        ELSE IF strategy = 1
             THEN [part |-> "string(0x" \o FmtHex(r) \o ")", pos |-> pos + 1]
        ELSE IF strategy = 2
             THEN LET offset == Intn(50, rs[pos + 2]) + 1
                  IN  [part |-> "string(" \o FmtDec(r - offset) \o "+"
                                 \o FmtDec(offset) \o ")",
                       pos |-> pos + 2]
        ELSE IF r = 34 \/ r = 92 \/ r > 127 THEN [part |-> PartDec(r), pos |-> pos + 1]
        ELSE IF r >= 32 /\ r < 127
             THEN [part |-> "\"" \o Chr(r) \o "\"", pos |-> pos + 1]
        ELSE [part |-> PartDec(r), pos |-> pos + 1]

RECURSIVE StringParts(_, _, _, _)
StringParts(s, i, rs, pos) ==
    IF i > Len(s) THEN [parts |-> <<>>, pos |-> pos]
    ELSE LET d == DecodeRune(s, i)
             p == StringPart(d.r, rs, pos)
             rest == StringParts(s, i + d.size, rs, p.pos)
         IN  [parts |-> <<p.part>> \o rest.parts, pos |-> rest.pos]

\* obfuscateStringLiteral(s): the expression text and the stream position
obfuscateStringLiteral(s, rs, pos) ==
    IF s = <<>> THEN [text |-> "\"\"", pos |-> pos]
    ELSE LET r == StringParts(s, 1, rs, pos)
         IN  [text |-> "(" \o Join(r.parts, "+") \o ")", pos |-> r.pos]

\* formatRe: %[-+#0 ]*[0-9]*(\.[0-9]+)?[dsvftxXboqpeEgGUcTw%]
FormatFlags == {Ord(Ch("-+#0 ", k)) : k \in 1..5}
FormatVerbs == {Ord(Ch("dsvftxXboqpeEgGUcTw%", k)) : k \in 1..20}
IsDigitByte(b) == b >= 48 /\ b <= 57

RECURSIVE SkipBytes(_, _, _)
\* the first index >= i of s whose byte is not in the class (1: flags, 2: digits)
SkipBytes(s, i, class) ==
    IF i > Len(s) THEN i
    ELSE IF (class = 1 /\ s[i] \in FormatFlags) \/ (class = 2 /\ IsDigitByte(s[i]))
         THEN SkipBytes(s, i + 1, class)
    ELSE i

\* the index after the specifier that starts at the % at index i, or 0
FormatSpecEnd(s, i) ==
    LET a == SkipBytes(s, i + 1, 1)
        b == SkipBytes(s, a, 2)
        c == IF b + 1 <= Len(s) /\ s[b] = 46 /\ IsDigitByte(s[b + 1])
             THEN SkipBytes(s, b + 1, 2) ELSE b
    IN  IF c <= Len(s) /\ s[c] \in FormatVerbs THEN c + 1 ELSE 0

\* formatRe.FindAllStringIndex(s, -1): <<<<start, end>>, ...>>, the bytes of
\* a match being s[start .. end-1]
RECURSIVE FindAllFormat(_, _)
FindAllFormat(s, i) ==
    IF i > Len(s) THEN <<>>
    ELSE IF s[i] = 37 /\ FormatSpecEnd(s, i) > 0
         THEN <<<<i, FormatSpecEnd(s, i)>>>> \o FindAllFormat(s, FormatSpecEnd(s, i))
    ELSE FindAllFormat(s, i + 1)

\* fmt.Sprintf(`"%s"`, formatSpec) of the bytes of a specifier
RECURSIVE BytesText(_)
BytesText(b) == IF b = <<>> THEN "" ELSE Chr(b[1]) \o BytesText(Tail(b))
QuotedSpec(b) == "\"" \o BytesText(b) \o "\""

\* the loop over the matches: parts are [spec |-> BOOLEAN, text |-> ...]
RECURSIVE FormatParts(_, _, _, _, _)
FormatParts(s, matches, lastEnd, rs, pos) ==
    IF matches = <<>>
    THEN IF lastEnd <= Len(s)
         THEN LET e == obfuscateStringLiteral(SubSeq(s, lastEnd, Len(s)), rs, pos)
              IN  [parts |-> <<[spec |-> FALSE, text |-> e.text]>>, pos |-> e.pos]
         ELSE [parts |-> <<>>, pos |-> pos]
    ELSE LET start == matches[1][1]
             end == matches[1][2]
             before == IF start > lastEnd
                       THEN obfuscateStringLiteral(SubSeq(s, lastEnd, start - 1), rs, pos)
                       ELSE [text |-> "", pos |-> pos]
             rest == FormatParts(s, Tail(matches), end, rs, before.pos)
         IN  [parts |-> (IF start > lastEnd
                         THEN <<[spec |-> FALSE, text |-> before.text]>> ELSE <<>>)
                        \o <<[spec |-> TRUE, text |-> QuotedSpec(SubSeq(s, start, end - 1))]>>
                        \o rest.parts,
              pos |-> rest.pos]

PartTexts(parts) == [i \in 1..Len(parts) |-> parts[i].text]

\* obfuscateFormatString(s)
obfuscateFormatString(s, rs, pos) ==
    LET matches == FindAllFormat(s, 1)
    IN  IF matches = <<>>
        THEN LET e == obfuscateStringLiteral(s, rs, pos)
             IN  [text |-> e.text, pos |-> e.pos, parts |-> <<>>]
        ELSE LET r == FormatParts(s, matches, 1, rs, pos)
             IN  [text |-> "(" \o Join(PartTexts(r.parts), "+") \o ")",
                  pos |-> r.pos, parts |-> r.parts]

-----------------------------------------------------------------------------
(* The value of an emitted expression, by the rules of the language *)

\* an operand of a string(...) conversion: a literal or a sum of two
IntSumVal(u) ==
    LET k == IndexFrom(u, "+", 2)
    IN  IF k = 0 THEN LitVal(u)
        ELSE LitVal(SubSeq(u, 1, k - 1)) + LitVal(SubSeq(u, k + 1, Len(u)))

RECURSIVE TermVal(_, _)
RECURSIVE ConcatVal(_, _)
\* the term that starts at index i: a parenthesized concatenation, a quoted
\* literal free of escapes, or a conversion string(n)
TermVal(t, i) ==
    IF Ch(t, i) = "(" THEN ConcatVal(t, i + 1)
    ELSE IF Ch(t, i) = "\""
         THEN LET j == IndexFrom(t, "\"", i + 1)
              IN  [val |-> TextBytes(SubSeq(t, i + 1, j - 1)), next |-> j + 1]
    ELSE LET j == IndexFrom(t, ")", i)
         IN  [val |-> EncodeRune(IntSumVal(SubSeq(t, i + 7, j - 1))), next |-> j + 1]
\* terms joined by + up to the closing parenthesis
ConcatVal(t, i) ==
    LET a == TermVal(t, i)
    IN  IF Ch(t, a.next) = "+"
        THEN LET b == ConcatVal(t, a.next + 1)
             IN  [val |-> a.val \o b.val, next |-> b.next]
        ELSE [val |-> a.val, next |-> a.next + 1]

\* the bytes of the string that expression text t denotes
StringExprVal(t) == TermVal(t, 1).val

-----------------------------------------------------------------------------
(* Integers wider than the checker's own: a natural number is a sequence *)
(* of Limbs limbs in base LimbBase, least significant first; an integer  *)
(* is a sign and a magnitude.                                            *)

LimbBase == 65536
Limbs == 5

NatZero == [i \in 1..Limbs |-> 0]
NatOfInt(k) == [i \in 1..Limbs |-> IF i = 1 THEN k % LimbBase
                                   ELSE IF i = 2 THEN k \div LimbBase ELSE 0]

RECURSIVE MulAddFrom(_, _, _, _)
\* limbs i.. of a * m + c, for 0 <= m, c < LimbBase / 2
MulAddFrom(a, m, c, i) ==
    IF i > Limbs THEN <<>>
    ELSE LET v == a[i] * m + c
         IN  <<v % LimbBase>> \o MulAddFrom(a, m, v \div LimbBase, i + 1)
NatMulAdd(a, m, c) == MulAddFrom(a, m, c, 1)

RECURSIVE DivFrom(_, _, _, _)
\* quotient limbs i..1 (most significant first) and remainder of a / d
DivFrom(a, d, rem, i) ==
    IF i < 1 THEN [q |-> <<>>, r |-> rem]
    ELSE LET v == rem * LimbBase + a[i]
             rest == DivFrom(a, d, v % d, i - 1)
         IN  [q |-> rest.q \o <<v \div d>>, r |-> rest.r]
NatDivMod(a, d) == DivFrom(a, d, 0, Limbs)

RECURSIVE AddFrom(_, _, _, _)
AddFrom(a, b, c, i) ==
    IF i > Limbs THEN <<>>
    ELSE LET v == a[i] + b[i] + c
         IN  <<v % LimbBase>> \o AddFrom(a, b, v \div LimbBase, i + 1)
\* a + b modulo LimbBase^Limbs
NatAdd(a, b) == AddFrom(a, b, 0, 1)

RECURSIVE SubFrom(_, _, _, _)
SubFrom(a, b, borrow, i) ==
    IF i > Limbs THEN <<>>
    ELSE LET v == a[i] - b[i] - borrow
         IN  <<v % LimbBase>> \o SubFrom(a, b, IF v < 0 THEN 1 ELSE 0, i + 1)
\* a - b modulo LimbBase^Limbs
NatSub(a, b) == SubFrom(a, b, 0, 1)

RECURSIVE LessFrom(_, _, _)
LessFrom(a, b, i) ==
    IF i < 1 THEN FALSE
    ELSE IF a[i] # b[i] THEN a[i] < b[i]
    ELSE LessFrom(a, b, i - 1)
NatLess(a, b) == LessFrom(a, b, Limbs)

RECURSIVE XorBits(_, _, _)
\* bitwise exclusive or of two limbs, k bits
XorBits(x, y, k) ==
    IF k = 0 THEN 0
    ELSE ((x + y) % 2) + 2 * XorBits(x \div 2, y \div 2, k - 1)
NatXor(a, b) == [i \in 1..Limbs |-> XorBits(a[i], b[i], 16)]

\* signed integers
MkInt(neg, mag) == [neg |-> neg /\ mag # NatZero, mag |-> mag]
IntOf(k) == IF k < 0 THEN MkInt(TRUE, NatOfInt(0 - k)) ELSE MkInt(FALSE, NatOfInt(k))
IntNeg(a) == MkInt(~a.neg, a.mag)
IntAdd(a, b) ==
    IF a.neg = b.neg THEN MkInt(a.neg, NatAdd(a.mag, b.mag))
    ELSE IF NatLess(a.mag, b.mag) THEN MkInt(b.neg, NatSub(b.mag, a.mag))
    ELSE MkInt(a.neg, NatSub(a.mag, b.mag))
IntSub(a, b) == IntAdd(a, IntNeg(b))
\* a * m and a / d (truncated) for a small natural m, d
IntMulSmall(a, m) == MkInt(a.neg, NatMulAdd(a.mag, m, 0))
IntDivSmall(a, d) == MkInt(a.neg, NatDivMod(a.mag, d).q)
IntRemSmall(a, d) == NatDivMod(a.mag, d).r
\* two's complement over all limbs, and back
ToTwos(a) == IF a.neg THEN NatSub(NatZero, a.mag) ELSE a.mag
FromTwos(p) ==
    IF p[Limbs] >= LimbBase \div 2 THEN MkInt(TRUE, NatSub(NatZero, p)) ELSE MkInt(FALSE, p)
IntXor(a, b) == FromTwos(NatXor(ToTwos(a), ToTwos(b)))

\* the int64 that holds the low 64 bits of an integer
Wrap64(a) ==
    LET p == ToTwos(a)
        ext == IF p[4] >= LimbBase \div 2 THEN LimbBase - 1 ELSE 0
    IN  FromTwos([i \in 1..Limbs |-> IF i <= 4 THEN p[i] ELSE ext])

RECURSIVE NatDigits(_)
NatDigits(a) ==
    LET d == NatDivMod(a, 10)
    IN  IF d.q = NatZero THEN Ch(HexDigits, d.r + 1)
        ELSE NatDigits(d.q) \o Ch(HexDigits, d.r + 1)
\* fmt's %d of an int64
FmtInt(a) == (IF a.neg THEN "-" ELSE "") \o NatDigits(a.mag)

RECURSIVE NatOfDigits(_, _)
NatOfDigits(u, acc) ==
    IF u = "" THEN acc
    ELSE NatOfDigits(SubSeq(u, 2, Len(u)), NatMulAdd(acc, 10, DigitVal(Ch(u, 1))))
\* the value of a decimal literal with an optional sign
IntOfText(u) ==
    IF Ch(u, 1) = "-" THEN MkInt(TRUE, NatOfDigits(SubSeq(u, 2, Len(u)), NatZero))
    ELSE MkInt(FALSE, NatOfDigits(u, NatZero))

-----------------------------------------------------------------------------
(* Integer obfuscation: src/goshield.go 244-259 *)

\* obfuscateInteger(n) for an int64 n: the expression text and the stream
\* position. rand.Int63n(k) is the raw draw modulo k.
obfuscateInteger(n, rs, pos) ==
    LET strategy == Intn(4, rs[pos + 1])
        x == IF strategy <= 2 THEN Intn(1000, rs[pos + 2]) + 1
             ELSE Intn(10, rs[pos + 2]) + 2
        a == IF strategy = 0 THEN Wrap64(IntSub(n, IntOf(x)))
             ELSE IF strategy = 1 THEN Wrap64(IntAdd(n, IntOf(x)))
             ELSE IF strategy = 2 THEN Wrap64(IntXor(n, IntOf(x)))
             ELSE Wrap64(IntMulSmall(n, x))
        op == IF strategy = 0 THEN "+"
              ELSE IF strategy = 1 THEN "-"
              ELSE IF strategy = 2 THEN "^"
              ELSE "/"
    IN  [text |-> "(" \o FmtInt(a) \o op \o FmtDec(x) \o ")", pos |-> pos + 2]

RECURSIVE OperatorIndex(_, _)
\* the index of the operator of (a op b): the first of + - ^ / from index i
OperatorIndex(t, i) ==
    IF i > Len(t) THEN 0
    ELSE IF Ch(t, i) \in {"+", "-", "^", "/"} THEN i
    ELSE OperatorIndex(t, i + 1)

\* the operands and operator of an emitted (a op b)
IntExprParts(t) ==
    LET k == OperatorIndex(t, 3)
    IN  [a |-> IntOfText(SubSeq(t, 2, k - 1)), op |-> Ch(t, k),
         b |-> LitVal(SubSeq(t, k + 1, Len(t) - 1))]

\* the integer that expression text (a op b) denotes: constant arithmetic
\* of the language is exact
IntExprVal(t) ==
    LET e == IntExprParts(t)
    IN  IF e.op = "+" THEN IntAdd(e.a, IntOf(e.b))
        ELSE IF e.op = "-" THEN IntSub(e.a, IntOf(e.b))
        ELSE IF e.op = "^" THEN IntXor(e.a, IntOf(e.b))
        ELSE IntDivSmall(e.a, e.b)

-----------------------------------------------------------------------------
(* The syntax tree: src/goshield.go 275-312                                *)
(*                                                                         *)
(* A parsed file is the sequence of its tokens in source order, which is   *)
(* the order in which ast.Inspect reaches them. An item is                 *)
(*   txt  text that no tree pass looks at                                  *)
(*   id   an *ast.Ident: s its Name, pos the node it sits in, obj the Kind *)
(*        of its Obj ("nil" when unresolved)                               *)
(*   gen  the Tok of a GenDecl of constants or variables, pos "top" when   *)
(*        the declaration is in file.Decls                                 *)
(*   imp  an *ast.ImportSpec: path its Path, s its Name ("" when nil)      *)
(* orig is the spelling in the input. sym and decl are not read by any     *)
(* pass: they name the declared entity an occurrence denotes, and whether  *)
(* the occurrence is its declaration.                                      *)
(***************************************************************************)

Item(k, s, pos, obj, sym, decl, path) ==
    [k |-> k, s |-> s, orig |-> s, pos |-> pos, obj |-> obj, sym |-> sym,
     decl |-> decl, path |-> path]
T(s) == Item("txt", s, "", "", "", FALSE, "")
D(name, pos, obj, sym) == Item("id", name, pos, obj, sym, TRUE, "")
U(name, pos, obj, sym) == Item("id", name, pos, obj, sym, FALSE, "")
G(tok, pos) == Item("gen", tok, pos, "", "", FALSE, "")
I(path, name) == Item("imp", name, "", "nil", "import:" \o path, TRUE, path)

\* an *ast.Ident that ast.Inspect reaches: an identifier, or the Name of an
\* import spec once it has one
IsIdent(it) == it.k = "id" \/ (it.k = "imp" /\ it.s # "")

SetName(tree, i, name) == [tree EXCEPT ![i].s = name]

\* cfg.Fprint: the text of the file
RECURSIVE Render(_, _)
Render(tree, i) ==
    IF i > Len(tree) THEN ""
    ELSE LET it == tree[i]
         IN  (IF it.k = "imp"
              THEN (IF it.s = "" THEN "" ELSE it.s \o " ") \o "\"" \o it.path \o "\""
              ELSE it.s)
             \o Render(tree, i + 1)

\* Reserved names that should never be obfuscated (stdlib interfaces/methods)
reservedNames ==
    {"Error", "String",
     "Read", "Write", "Close", "Seek",
     "Len", "Cap", "Copy", "Append",
     "ServeHTTP", "Header", "Body", "Status", "StatusCode",
     "MarshalJSON", "UnmarshalJSON",
     "Context", "Err", "Done", "Value", "Deadline",
     "Lock", "Unlock", "RLock", "RUnlock",
     "ID", "URL", "URI", "HTML"}

\* NewObfuscator: the maps of the Obfuscator that the passes fill
NewObfuscator ==
    [declaredFuncs |-> {}, declaredMethods |-> {}, importAliases |-> <<>>,
     structFields |-> {}, typeNames |-> {}, structTypes |-> {}]

\* the names of the items of a tree that sit in one of the given nodes
NamesAt(tree, poss) == {tree[i].s : i \in {j \in 1..Len(tree) : tree[j].k = "id" /\ tree[j].pos \in poss}}

-----------------------------------------------------------------------------
(* Collection passes: src/goshield.go 318-381 *)

collectTypeNames(o, tree) ==
    [o EXCEPT !.typeNames = NamesAt(tree, {"typeStruct", "typeAlias"})]

collectDeclaredFunctions(o, tree) ==
    [o EXCEPT !.declaredFuncs = NamesAt(tree, {"funcDecl"}) \ {"main", "init"},
              !.declaredMethods = NamesAt(tree, {"methodDecl"}) \ {"main", "init"}]

collectStructFields(o, tree) ==
    [o EXCEPT !.structFields = NamesAt(tree, {"field"}) \ reservedNames]

\* the state a walk threads: the tree, nameMap, the stream position, and
\* whether every allocation so far returned
Walk(tree, nm, pos) == [tree |-> tree, nm |-> nm, pos |-> pos, ok |-> TRUE]

\* ident.Name = getObfuscatedName(ident.Name) at item i; c holds the draw
\* stream and the offset of the ranges over nameMap
RenameAt(st, i, c) ==
    LET r == getObfuscatedName(st.nm, st.tree[i].s, c.rs, st.pos, c.off)
    IN  [tree |-> IF r.ok THEN SetName(st.tree, i, r.name) ELSE st.tree,
         nm |-> r.nameMap, pos |-> r.pos, ok |-> st.ok /\ r.ok]

RECURSIVE StructTypesWalk(_, _, _)
\* collectStructTypes: st carries structTypes, structTypeMapping (stm) and
\* typeAliasMapping (tam) besides nameMap and the stream position
StructTypesWalk(st, i, c) ==
    IF i > Len(st.tree) THEN st
    ELSE LET it == st.tree[i]
         IN  IF it.k = "id" /\ it.pos \in {"typeStruct", "typeAlias"}
             THEN LET r == getObfuscatedName(st.nm, it.s, c.rs, st.pos, c.off)
                      isStruct == it.pos = "typeStruct"
                  IN  StructTypesWalk(
                          [st EXCEPT !.nm = r.nameMap, !.pos = r.pos, !.ok = st.ok /\ r.ok,
                                     !.structTypes = IF isStruct THEN @ \cup {it.s} ELSE @,
                                     !.stm = IF isStruct THEN MapPut(@, it.s, r.name) ELSE @,
                                     !.tam = IF isStruct THEN @ ELSE MapPut(@, it.s, r.name)],
                          i + 1, c)
             ELSE StructTypesWalk(st, i + 1, c)

collectStructTypes(tree, nm, stm, tam, pos, c) ==
    StructTypesWalk([tree |-> tree, nm |-> nm, pos |-> pos, ok |-> TRUE,
                     structTypes |-> {}, stm |-> stm, tam |-> tam], 1, c)

-----------------------------------------------------------------------------
(* Obfuscation passes: src/goshield.go 387-563 *)

obfuscateConsts(tree) ==
    [i \in 1..Len(tree) |->
        IF tree[i].k = "gen" /\ tree[i].s = "const"
        THEN [tree[i] EXCEPT !.s = "var"] ELSE tree[i]]

RECURSIVE PathBase(_)
\* parts := strings.Split(path, "/"); parts[len(parts)-1]
PathBase(path) ==
    LET k == IndexFrom(path, "/", 1)
    IN  IF k = 0 THEN path ELSE PathBase(SubSeq(path, k + 1, Len(path)))

RECURSIVE ImportsWalk(_, _, _)
\* the loop of obfuscateImports; st carries importAliases
ImportsWalk(st, i, c) ==
    IF i > Len(st.tree) THEN st
    ELSE IF st.tree[i].k = "imp"
         THEN LET baseName == PathBase(st.tree[i].path)
                  r == getObfuscatedName(st.nm, baseName, c.rs, st.pos, c.off)
              IN  ImportsWalk(
                      [st EXCEPT !.nm = r.nameMap, !.pos = r.pos, !.ok = st.ok /\ r.ok,
                                 !.importAliases = MapPut(@, baseName, r.name),
                                 !.tree = SetName(@, i, r.name)],
                      i + 1, c)
    ELSE ImportsWalk(st, i + 1, c)

obfuscateImports(tree, nm, pos, noImports, c) ==
    LET st == [tree |-> tree, nm |-> nm, pos |-> pos, ok |-> TRUE, importAliases |-> <<>>]
    IN  IF noImports THEN st ELSE ImportsWalk(st, 1, c)

updateImportReferences(tree, importAliases, noImports) ==
    IF noImports THEN tree
    ELSE [i \in 1..Len(tree) |->
            IF tree[i].k = "id" /\ tree[i].pos = "selX" /\ MapHas(importAliases, tree[i].s)
            THEN [tree[i] EXCEPT !.s = MapGet(importAliases, tree[i].s)]
            ELSE tree[i]]

\* the second traversal of obfuscateStructTypes on one identifier
StructTypeName(name, fieldNameSet, stm, tam) ==
    IF name \in fieldNameSet THEN name
    ELSE LET n1 == IF MapHas(stm, name) THEN MapGet(stm, name) ELSE name
         IN  IF MapHas(tam, n1) THEN MapGet(tam, n1) ELSE n1

obfuscateStructTypes(tree, stm, tam) ==
    LET fieldNameSet == NamesAt(tree, {"field"})
    IN  [i \in 1..Len(tree) |->
            IF IsIdent(tree[i])
            THEN [tree[i] EXCEPT !.s = StructTypeName(@, fieldNameSet, stm, tam)]
            ELSE tree[i]]

RECURSIVE EnclosingGen(_, _)
\* the GenDecl of the value spec whose name is item i: the nearest before it
EnclosingGen(tree, i) ==
    IF i < 1 THEN G("", "")
    ELSE IF tree[i].k = "gen" THEN tree[i]
    ELSE EnclosingGen(tree, i - 1)

\* the first loop of obfuscateVariables
PackageVars(tree) ==
    {tree[i].s : i \in {j \in 1..Len(tree) :
        /\ tree[j].k = "id"
        /\ tree[j].pos = "valueSpec"
        /\ EnclosingGen(tree, j).pos = "top"
        /\ EnclosingGen(tree, j).s = "var"
        /\ tree[j].s # "_"
        /\ tree[j].s \notin reservedNames}}

RECURSIVE VariablesWalk(_, _, _)
\* the traversal of obfuscateVariables; c carries the Obfuscator's sets,
\* typeAliasMapping and packageVars
VariablesWalk(st, i, c) ==
    IF i > Len(st.tree) THEN st
    ELSE LET it == st.tree[i]
         IN  IF ~IsIdent(it) THEN VariablesWalk(st, i + 1, c)
             ELSE IF \/ it.s \in reservedNames
                     \/ it.s \in c.o.structTypes
                     \/ it.s \in c.o.structFields
                  THEN VariablesWalk(st, i + 1, c)
             ELSE IF MapHas(c.tam, it.s) THEN VariablesWalk(st, i + 1, c)
             ELSE IF it.s \in c.packageVars
                  THEN VariablesWalk(RenameAt(st, i, c), i + 1, c)
             ELSE IF it.obj = "Var" /\ it.s # "_"
                  THEN VariablesWalk(RenameAt(st, i, c), i + 1, c)
             ELSE VariablesWalk(st, i + 1, c)

obfuscateVariables(tree, nm, pos, noVars, c) ==
    IF noVars THEN Walk(tree, nm, pos)
    ELSE VariablesWalk(Walk(tree, nm, pos), 1,
                       [c EXCEPT !.packageVars = PackageVars(tree)])

RECURSIVE FuncDeclWalk(_, _, _)
\* obfuscateFunctions, first traversal: the names of the FuncDecls
FuncDeclWalk(st, i, c) ==
    IF i > Len(st.tree) THEN st
    ELSE LET it == st.tree[i]
         IN  IF /\ it.k = "id"
                /\ it.pos \in {"funcDecl", "methodDecl"}
                /\ (it.s \in c.o.declaredFuncs \/ it.s \in c.o.declaredMethods)
             THEN FuncDeclWalk(RenameAt(st, i, c), i + 1, c)
             ELSE FuncDeclWalk(st, i + 1, c)

RECURSIVE CallWalk(_, _, _)
\* second traversal: the Fun of every CallExpr
CallWalk(st, i, c) ==
    IF i > Len(st.tree) THEN st
    ELSE LET it == st.tree[i]
         IN  IF \/ it.k = "id" /\ it.pos = "callFun" /\ it.s \in c.o.declaredFuncs
                \/ it.k = "id" /\ it.pos = "callSel" /\ it.s \in c.o.declaredMethods
             THEN CallWalk(RenameAt(st, i, c), i + 1, c)
             ELSE CallWalk(st, i + 1, c)

RECURSIVE SelectorWalk(_, _, _)
\* third traversal: the Sel of every SelectorExpr
SelectorWalk(st, i, c) ==
    IF i > Len(st.tree) THEN st
    ELSE LET it == st.tree[i]
         IN  IF /\ it.k = "id"
                /\ it.pos \in {"sel", "callSel"}
                /\ it.s \in c.o.declaredMethods
                /\ it.s \notin c.o.structFields
             THEN SelectorWalk(RenameAt(st, i, c), i + 1, c)
             ELSE SelectorWalk(st, i + 1, c)

obfuscateFunctions(tree, nm, pos, noFunctions, c) ==
    IF noFunctions THEN Walk(tree, nm, pos)
    ELSE SelectorWalk(CallWalk(FuncDeclWalk(Walk(tree, nm, pos), 1, c), 1, c), 1, c)

-----------------------------------------------------------------------------
(* Text helpers: package strings and strconv as the sweeps use them *)

\* strings.Contains(t, sub), searching from index i
Contains(t, sub, i) ==
    \E j \in i..(Len(t) - Len(sub) + 1) : SubSeq(t, j, j + Len(sub) - 1) = sub

HasPrefix(t, p) == Len(t) >= Len(p) /\ SubSeq(t, 1, Len(p)) = p

\* white space of source text (the form feed stands for the backquote here
\* and is no space)
IsSpace(c) == c \in {" ", "\t", "\n", "\r"}

\* strings.TrimSpace(t)
TrimSpace(t) ==
    LET S == {j \in 1..Len(t) : ~IsSpace(Ch(t, j))}
    IN  IF S = {} THEN ""
        ELSE SubSeq(t, SetMin(S), CHOOSE x \in S : \A y \in S : y <= x)

RECURSIVE Split(_)
\* strings.Split(t, "\n")
Split(t) ==
    LET k == IndexFrom(t, "\n", 1)
    IN  IF k = 0 THEN <<t>>
        ELSE <<SubSeq(t, 1, k - 1)>> \o Split(SubSeq(t, k + 1, Len(t)))

\* the first index >= i of t that holds no white space (Len(t) + 1 if none)
SkipSpace(t, i) == SetMin({j \in i..(Len(t) + 1) : j > Len(t) \/ ~IsSpace(Ch(t, j))})
SkipNonSpace(t, i) == SetMin({j \in i..(Len(t) + 1) : j > Len(t) \/ IsSpace(Ch(t, j))})
SkipDigits(t, i) == SetMin({j \in i..(Len(t) + 1) : j > Len(t) \/ ~IsDigit(Ch(t, j))})

UpperHex == "ABCDEF"
IsHex(c) == (\E i \in 1..Len(HexDigits) : Ch(HexDigits, i) = c) \/ (\E i \in 1..6 : Ch(UpperHex, i) = c)
HexVal(c) ==
    IF \E i \in 1..6 : Ch(UpperHex, i) = c
    THEN 9 + (CHOOSE i \in 1..6 : Ch(UpperHex, i) = c)
    ELSE DigitVal(c)
RECURSIVE AllHex(_)
AllHex(u) == u = "" \/ (IsHex(Ch(u, 1)) /\ AllHex(SubSeq(u, 2, Len(u))))
RECURSIVE HexNum(_, _)
HexNum(u, acc) == IF u = "" THEN acc ELSE HexNum(SubSeq(u, 2, Len(u)), acc * 16 + HexVal(Ch(u, 1)))
IsOctal(c) == IsDigit(c) /\ DigitVal(c) < 8

\* the single-character escapes of strconv.UnquoteChar in a "..." literal
SimpleEscapes == "abfnrtv\\\""
SimpleEscapeBytes == <<7, 8, 12, 10, 13, 9, 11, 92, 34>>

RECURSIVE UnquoteFrom(_, _)
\* the bytes of the body t[i..] of a double-quoted literal, or ok = FALSE
UnquoteFrom(t, i) ==
    IF i > Len(t) THEN [ok |-> TRUE, val |-> <<>>]
    ELSE IF Ch(t, i) # "\\"
    THEN LET r == UnquoteFrom(t, i + 1)
         IN  [ok |-> r.ok, val |-> <<Ord(Ch(t, i))>> \o r.val]
    ELSE IF i + 1 > Len(t) THEN [ok |-> FALSE, val |-> <<>>]
    ELSE LET e == Ch(t, i + 1)
             n == IF e = "x" THEN 2 ELSE IF e = "u" THEN 4 ELSE IF e = "U" THEN 8 ELSE 0
             h == SubSeq(t, i + 2, i + 1 + n)
         IN  IF \E k \in 1..Len(SimpleEscapes) : Ch(SimpleEscapes, k) = e
             THEN LET r == UnquoteFrom(t, i + 2)
                      k == CHOOSE k \in 1..Len(SimpleEscapes) : Ch(SimpleEscapes, k) = e
                  IN  [ok |-> r.ok, val |-> <<SimpleEscapeBytes[k]>> \o r.val]
             ELSE IF n > 0
             THEN IF Len(h) < n \/ ~AllHex(h) \/ (n = 8 /\ SubSeq(h, 1, 2) # "00")
                  THEN [ok |-> FALSE, val |-> <<>>]
                  ELSE LET v == HexNum(h, 0)
                           r == UnquoteFrom(t, i + 2 + n)
                       IN  IF n = 2 THEN [ok |-> r.ok, val |-> <<v>> \o r.val]
                           ELSE IF v > MaxRune \/ (v >= 55296 /\ v < 57344)
                           THEN [ok |-> FALSE, val |-> <<>>]
                           ELSE [ok |-> r.ok, val |-> EncodeRune(v) \o r.val]
             ELSE IF IsOctal(e)
             THEN IF i + 3 > Len(t) \/ ~IsOctal(Ch(t, i + 2)) \/ ~IsOctal(Ch(t, i + 3))
                  THEN [ok |-> FALSE, val |-> <<>>]
                  ELSE LET v == DigitVal(e) * 64 + DigitVal(Ch(t, i + 2)) * 8 + DigitVal(Ch(t, i + 3))
                           r == UnquoteFrom(t, i + 4)
                       IN  [ok |-> r.ok /\ v <= 255, val |-> <<v>> \o r.val]
             ELSE [ok |-> FALSE, val |-> <<>>]

\* strconv.Unquote of a match of the string pattern
Unquote(match) == UnquoteFrom(SubSeq(match, 2, Len(match) - 1), 1)

\* strings.Contains on the bytes of a value
ContainsBytes(s, sub, i) ==
    \E j \in i..(Len(s) - Len(sub) + 1) : SubSeq(s, j, j + Len(sub) - 1) = sub

-----------------------------------------------------------------------------
(* Raw strings: src/goshield.go 569-633 *)

StructTagKeys == <<"json:", "xml:", "yaml:", "gorm:">>
CodeMarkers ==
    <<"function", "await", "async", "const ", "var ", "let ", "try {", "catch",
      "return ", "SELECT ", "INSERT ", "UPDATE ">>
MinRawLen == 20

\* the test the callback makes before it encodes a block; innerContent is
\* the bytes between the backquotes
RawEncoded(innerContent) ==
    /\ Len(innerContent) >= MinRawLen
    /\ \A k \in 1..Len(StructTagKeys) :
          ~ContainsBytes(innerContent, TextBytes(StructTagKeys[k]), 1)
    /\ \E k \in 1..Len(CodeMarkers) :
          ContainsBytes(innerContent, TextBytes(CodeMarkers[k]), 1)

\* the part for one byte c := innerContent[i]: the switch on rand.Intn(3)
RawPart(c, raw) ==
    LET k == Intn(3, raw)
    IN  IF k = 0 THEN "string(" \o FmtDec(c) \o ")"
        ELSE IF k = 1 THEN "string(0x" \o FmtHex(c) \o ")"
        ELSE IF c >= 32 /\ c < 127 /\ c \notin {34, 92, 39} THEN "\"" \o Chr(c) \o "\""
        ELSE "string(" \o FmtDec(c) \o ")"

RawParts(innerContent, rs, pos) ==
    [i \in 1..Len(innerContent) |-> RawPart(innerContent[i], rs[pos + i])]

\* the callback of ReplaceAllStringFunc on one block: whether it encodes the
\* block, the expression it returns then, and the stream position after it
RawBlock(innerContent, rs, pos) ==
    IF RawEncoded(innerContent)
    THEN [encoded |-> TRUE,
          text |-> "(" \o Join(RawParts(innerContent, rs, pos), "+") \o ")",
          pos |-> pos + Len(innerContent)]
    ELSE [encoded |-> FALSE, text |-> "", pos |-> pos]

RECURSIVE BacktickScan(_, _, _, _, _)
\* ReplaceAllStringFunc over the matches of `[^`]+` from index i on
BacktickScan(content, i, rs, pos, n) ==
    LET a == IndexFrom(content, BQ, i)
        b == IF a = 0 THEN 0 ELSE IndexFrom(content, BQ, a + 1)
    IN  IF a = 0 \/ b = 0
        THEN [text |-> SubSeq(content, i, Len(content)), pos |-> pos, count |-> n]
        ELSE IF b = a + 1
        THEN LET r == BacktickScan(content, a + 1, rs, pos, n)
             IN  [r EXCEPT !.text = SubSeq(content, i, a) \o @]
        ELSE LET Joined(m, r) ==
                     [r EXCEPT !.text =
                         SubSeq(content, i, a - 1)
                         \o (IF m.encoded THEN m.text ELSE SubSeq(content, a, b))
                         \o @]
                 After(m) ==
                     Joined(m, BacktickScan(content, b + 1, rs, m.pos,
                                            IF m.encoded THEN n + 1 ELSE n))
             IN  After(RawBlock(TextBytes(SubSeq(content, a + 1, b - 1)), rs, pos))

obfuscateBacktickStrings(content, noStrings, rs, pos) ==
    IF noStrings THEN [text |-> content, pos |-> pos, count |-> 0]
    ELSE BacktickScan(content, 1, rs, pos, 0)

-----------------------------------------------------------------------------
(* String literals in text: src/goshield.go 635-709 *)

SkipPrefixes == <<"const ", "case ", "Set(", ".Set(">>
SkipMarkers == <<".Set(", BQ \o "json:", BQ \o "xml:", BQ \o "yaml:", "Flag", "flag.", "launcher.">>

\* the continue at 659-671
StringLineSkipped(line, trimmed) ==
    \/ \E k \in 1..Len(SkipPrefixes) : HasPrefix(trimmed, SkipPrefixes[k])
    \/ \E k \in 1..Len(SkipMarkers) : Contains(line, SkipMarkers[k], 1)

\* "[^"]*"\s*$ matched against t[i..]
QuotedToEnd(t, i) ==
    /\ i <= Len(t) /\ Ch(t, i) = "\""
    /\ LET e == IndexFrom(t, "\"", i + 1)
       IN  e # 0 /\ SkipSpace(t, e + 1) > Len(t)

\* typeAliasPattern: ^\s*[^\s]+\s+[^\s]+\s*=\s*"[^"]*"\s*$
\* a is the first word, b the second; the = ends the second word or is the
\* first thing after it
typeAliasPattern(line) ==
    LET a == SkipSpace(line, 1)
        aEnd == SkipNonSpace(line, a)
        b == SkipSpace(line, aEnd)
        bEnd == SkipNonSpace(line, b)
    IN  /\ aEnd > a
        /\ b > aEnd
        /\ bEnd > b
        /\ \/ \E e \in (b + 1)..(bEnd - 1) :
                Ch(line, e) = "=" /\ QuotedToEnd(line, SkipSpace(line, e + 1))
           \/ LET e == SkipSpace(line, bEnd)
              IN  e <= Len(line) /\ Ch(line, e) = "="
                  /\ QuotedToEnd(line, SkipSpace(line, e + 1))

isVarAssignment(line) ==
    /\ Contains(line, "=", 1)
    /\ ~Contains(line, "==", 1)
    /\ ~Contains(line, "!=", 1)
    /\ ~Contains(line, "(", 1)

RECURSIVE StringEnd(_, _)
\* the closing quote of "([^"\\]|\\.)*" whose body starts at j, or 0
StringEnd(line, j) ==
    IF j > Len(line) THEN 0
    ELSE IF Ch(line, j) = "\"" THEN j
    ELSE IF Ch(line, j) = "\\"
         THEN IF j + 1 <= Len(line) THEN StringEnd(line, j + 2) ELSE 0
    ELSE StringEnd(line, j + 1)

\* the callback at 685-704 on one match
StringMatch(match, isVar, rs, pos) ==
    LET keep == [text |-> match, pos |-> pos, count |-> 0]
        Encoded(e) == [text |-> e.text, pos |-> e.pos, count |-> 1]
        Callback(s, err) ==
            IF err THEN keep
            ELSE IF Len(s) < 3 THEN keep
            ELSE IF ContainsBytes(s, <<92>>, 1) THEN keep
            ELSE IF ContainsBytes(s, <<58, 47, 47>>, 1) /\ ~isVar THEN keep
            ELSE IF ContainsBytes(s, <<37>>, 1)
                 THEN Encoded(obfuscateFormatString(s, rs, pos))
            ELSE Encoded(obfuscateStringLiteral(s, rs, pos))
        Unquoted(u) == Callback(u.val, ~u.ok)
    IN  Unquoted(Unquote(match))

RECURSIVE StringsInLine(_, _, _, _, _)
\* ReplaceAllStringFunc over one line from index i on
StringsInLine(line, i, isVar, rs, pos) ==
    LET a == IndexFrom(line, "\"", i)
        e == IF a = 0 THEN 0 ELSE StringEnd(line, a + 1)
    IN  IF a = 0 THEN [text |-> SubSeq(line, i, Len(line)), pos |-> pos, count |-> 0]
        ELSE IF e = 0
        THEN LET r == StringsInLine(line, a + 1, isVar, rs, pos)
             IN  [r EXCEPT !.text = SubSeq(line, i, a) \o @]
        ELSE LET Joined(m, r) ==
                     [text |-> SubSeq(line, i, a - 1) \o m.text \o r.text,
                      pos |-> r.pos, count |-> m.count + r.count]
                 After(m) == Joined(m, StringsInLine(line, e + 1, isVar, rs, m.pos))
             IN  After(StringMatch(SubSeq(line, a, e), isVar, rs, pos))

RECURSIVE StringsLines(_, _, _, _, _)
\* the loop over the lines, from line k on
StringsLines(lines, k, inImportBlock, rs, pos) ==
    IF k > Len(lines) THEN [lines |-> <<>>, pos |-> pos, count |-> 0]
    ELSE LET line == lines[k]
             trimmed == TrimSpace(line)
             keep(blk) == LET r == StringsLines(lines, k + 1, blk, rs, pos)
                          IN  [r EXCEPT !.lines = <<line>> \o @]
         IN  IF HasPrefix(trimmed, "import (") THEN keep(TRUE)
             ELSE IF inImportBlock /\ trimmed = ")" THEN keep(FALSE)
             ELSE IF inImportBlock \/ HasPrefix(trimmed, "import ") THEN keep(inImportBlock)
             ELSE IF StringLineSkipped(line, trimmed) THEN keep(inImportBlock)
             ELSE IF typeAliasPattern(line) THEN keep(inImportBlock)
             ELSE LET Joined(m, r) ==
                          [lines |-> <<m.text>> \o r.lines, pos |-> r.pos,
                           count |-> m.count + r.count]
                      After(m) ==
                          Joined(m, StringsLines(lines, k + 1, inImportBlock, rs, m.pos))
                  IN  After(StringsInLine(line, 1, isVarAssignment(line), rs, pos))

obfuscateStringsInText(content, noStrings, rs, pos) ==
    IF noStrings THEN [text |-> content, pos |-> pos, count |-> 0]
    ELSE LET Joined(r) == [text |-> Join(r.lines, "\n"), pos |-> r.pos, count |-> r.count]
         IN  Joined(StringsLines(Split(content), 1, FALSE, rs, pos))

-----------------------------------------------------------------------------
(* Integer literals in text: src/goshield.go 711-758 *)

IntLineMarkers == <<"string(", "\"", BQ, "'">>
IntLinePrefixes == <<"func ", "import", "package", "type ", "const ", "var ">>
MinInt == 10
MaxInt == 100000

\* the second continue alone, without the test for a conversion or a quoting
\* character
IntLineSkippedByPrefix(line) ==
    \/ \E k \in 1..Len(IntLinePrefixes) : HasPrefix(TrimSpace(line), IntLinePrefixes[k])
    \/ Contains(line, "func (", 1)

\* the two continues at 720-736
IntLineSkipped(line) ==
    \/ \E k \in 1..Len(IntLineMarkers) : Contains(line, IntLineMarkers[k], 1)
    \/ \E k \in 1..Len(IntLinePrefixes) : HasPrefix(TrimSpace(line), IntLinePrefixes[k])
    \/ Contains(line, "func (", 1)

\* the classes of ([\s(=:,])(\d+)([\s),;\]])
IntBefore(c) == IsSpace(c) \/ c \in {"(", "=", ":", ","}
IntAfter(c) == IsSpace(c) \/ c \in {")", ",", ";", "]"}

RECURSIVE StripZeros(_)
StripZeros(u) == IF Len(u) > 1 /\ Ch(u, 1) = "0" THEN StripZeros(SubSeq(u, 2, Len(u))) ELSE u

\* the callback at 740-751: strconv.ParseInt(numStr, 10, 64) and the range
\* test. A number of more than six significant digits is above MaxInt or
\* out of range for ParseInt, and the match is kept either way.
IntMatch(match, rs, pos) ==
    LET numStr == SubSeq(match, 2, Len(match) - 1)
        sig == StripZeros(numStr)
        n == IF Len(sig) > 6 THEN MaxInt + 1 ELSE DigitsVal(sig, 10, 0)
        Replaced(e) == [text |-> Ch(match, 1) \o e.text \o Ch(match, Len(match)),
                        pos |-> e.pos, count |-> 1]
    IN  IF n <= MinInt \/ n > MaxInt THEN [text |-> match, pos |-> pos, count |-> 0]
        ELSE Replaced(obfuscateInteger(IntOf(n), rs, pos))

\* the pattern matches at index a of the line
IntMatchAt(line, a) ==
    LET d == SkipDigits(line, a + 1)
    IN  IntBefore(Ch(line, a)) /\ d > a + 1 /\ d <= Len(line) /\ IntAfter(Ch(line, d))

RECURSIVE IntsInLine(_, _, _, _)
\* ReplaceAllStringFunc over one line from index i on
IntsInLine(line, i, rs, pos) ==
    LET S == {a \in i..Len(line) : IntMatchAt(line, a)}
    IN  IF S = {} THEN [text |-> SubSeq(line, i, Len(line)), pos |-> pos, count |-> 0]
        ELSE LET a == SetMin(S)
                 d == SkipDigits(line, a + 1)
                 Joined(m, r) ==
                     [text |-> SubSeq(line, i, a - 1) \o m.text \o r.text,
                      pos |-> r.pos, count |-> m.count + r.count]
                 After(m) == Joined(m, IntsInLine(line, d + 1, rs, m.pos))
             IN  After(IntMatch(SubSeq(line, a, d), rs, pos))

RECURSIVE IntsLines(_, _, _, _)
IntsLines(lines, k, rs, pos) ==
    IF k > Len(lines) THEN [lines |-> <<>>, pos |-> pos, count |-> 0]
    ELSE IF IntLineSkipped(lines[k])
    THEN LET r == IntsLines(lines, k + 1, rs, pos)
         IN  [r EXCEPT !.lines = <<lines[k]>> \o @]
    ELSE LET Joined(m, r) ==
                 [lines |-> <<m.text>> \o r.lines, pos |-> r.pos, count |-> m.count + r.count]
             After(m) == Joined(m, IntsLines(lines, k + 1, rs, m.pos))
         IN  After(IntsInLine(lines[k], 1, rs, pos))

obfuscateIntegersInText(content, noInts, rs, pos) ==
    IF noInts THEN [text |-> content, pos |-> pos, count |-> 0]
    ELSE LET Joined(r) == [text |-> Join(r.lines, "\n"), pos |-> r.pos, count |-> r.count]
         IN  Joined(IntsLines(Split(content), 1, rs, pos))

-----------------------------------------------------------------------------
(* The allocator under arbitrary calls *)

NoCall == [name |-> "", ret |-> "", had |-> FALSE, tries |-> 0]
NoLit == [fn |-> "none", in |-> <<>>, text |-> "", parts |-> <<>>]

NoRun == [output |-> "", nameMap |-> <<>>]
NoFlags == [noInts |-> FALSE, noStrings |-> FALSE, noVars |-> FALSE,
            noFunctions |-> FALSE, noImports |-> FALSE]

\* no execution of main() is under way
NoMain ==
    /\ pc = "none"
    /\ run = 0
    /\ flags = NoFlags
    /\ prog = 0
    /\ file = <<>>
    /\ obf = NewObfuscator
    /\ structTypeMapping = <<>>
    /\ typeAliasMapping = <<>>
    /\ output = ""
    /\ first = NoRun

InitAlloc ==
    /\ NoMain
    /\ rng \in [1..StreamLen -> RawDraws]
    /\ rpos = 0
    /\ nameMap = <<>>
    /\ lastCall = NoCall
    /\ lit = NoLit

CallGetObfuscatedName ==
    \E original \in AllocNames, off \in IterOffsets :
        LET r == getObfuscatedName(nameMap, original, rng, rpos, off)
        IN  /\ r.ok
            /\ nameMap' = r.nameMap
            /\ rpos' = r.pos
            /\ lastCall' = [name |-> original, ret |-> r.name,
                            had |-> MapHas(nameMap, original),
                            tries |-> (r.pos - rpos) \div NameLen]
            /\ UNCHANGED <<rng, litVars, pipeVars>>

NextAlloc == CallGetObfuscatedName

SpecAlloc == InitAlloc /\ [][NextAlloc]_vars

-----------------------------------------------------------------------------
(* The loop of getObfuscatedName, one iteration a step, under a generator  *)
(* that may return any candidate at each call                              *)

\* the names generateObfuscatedName can return
Candidates == {generateObfuscatedName(NameLen, rs, 0) : rs \in [1..NameLen -> RawDraws]}

\* a call is inside the for loop: no name returned yet
InLoop == lastCall.name # "" /\ lastCall.ret = ""

InitLoop ==
    /\ NoMain
    /\ rng = <<>>
    /\ rpos = 0
    /\ nameMap = <<>>
    /\ lastCall = NoCall
    /\ lit = NoLit

\* lines 142-146: the lookup, and the entry into the loop when it fails
EnterGetObfuscatedName ==
    /\ ~InLoop
    /\ \E original \in AllocNames :
          lastCall' = IF MapHas(nameMap, original)
                      THEN [name |-> original, ret |-> MapGet(nameMap, original),
                            had |-> TRUE, tries |-> 0]
                      ELSE [name |-> original, ret |-> "", had |-> FALSE, tries |-> 0]
    /\ UNCHANGED <<rng, rpos, nameMap, litVars, pipeVars>>

\* lines 147-162: one iteration with candidate newName, and the insertion
\* and return when the candidate is free
LoopIteration(newName) ==
    /\ InLoop
    /\ \E off \in IterOffsets :
          IF ExistsValue(nameMap, newName, off, 1)
          THEN /\ nameMap' = nameMap
               /\ lastCall' = [lastCall EXCEPT !.tries = Min(@ + 1, MaxTries)]
          ELSE /\ nameMap' = MapPut(nameMap, lastCall.name, newName)
               /\ lastCall' = [lastCall EXCEPT !.ret = newName,
                                               !.tries = Min(@ + 1, MaxTries)]
    /\ UNCHANGED <<rng, rpos, litVars, pipeVars>>

GenerateCandidate == \E newName \in Candidates : LoopIteration(newName)

\* the generator returns a name that was not issued
FreshDraw == \E newName \in Candidates \ MapValues(nameMap) : LoopIteration(newName)

NextLoop == EnterGetObfuscatedName \/ GenerateCandidate

\* a fair generator: a name that was not issued is drawn in the end
SpecLoop == InitLoop /\ [][NextLoop]_vars /\ WF_vars(FreshDraw)

-----------------------------------------------------------------------------
(* The literal encoders as functions of their input and draws *)

\* one rune's draws: a strategy, and an offset draw for strategy 2
RuneDraws == {<<0>>, <<1>>, <<3>>} \cup {<<2, k>> : k \in OffsetDraws}

RECURSIVE Flatten(_)
Flatten(ss) == IF ss = <<>> THEN <<>> ELSE ss[1] \o Flatten(Tail(ss))

StrInputs == UNION {[1..n -> StrBytes] : n \in 0..MaxStrLen}

InitStr ==
    /\ NoMain
    /\ lit \in {[fn |-> "none", in |-> s, text |-> "", parts |-> <<>>] : s \in StrInputs}
    /\ rng = <<>>
    /\ rpos = 0
    /\ nameMap = <<>>
    /\ lastCall = NoCall

CallObfuscateStringLiteral ==
    /\ lit.fn = "none"
    /\ \E ds \in [1..Len(Runes(lit.in, 1)) -> RuneDraws] :
          LET e == obfuscateStringLiteral(lit.in, Flatten(ds), 0)
          IN  lit' = [lit EXCEPT !.fn = "string", !.text = e.text]
    /\ UNCHANGED <<allocVars, pipeVars>>

CallObfuscateFormatString ==
    /\ lit.fn = "none"
    /\ \E ds \in [1..Len(Runes(lit.in, 1)) -> RuneDraws] :
          LET e == obfuscateFormatString(lit.in, Flatten(ds), 0)
          IN  lit' = [lit EXCEPT !.fn = "format", !.text = e.text, !.parts = e.parts]
    /\ UNCHANGED <<allocVars, pipeVars>>

NextStr == CallObfuscateStringLiteral \/ CallObfuscateFormatString

SpecStr == InitStr /\ [][NextStr]_vars

InitInt ==
    /\ NoMain
    /\ lit \in {[fn |-> "none", in |-> n, text |-> "", parts |-> <<>>] : n \in IntInputs}
    /\ rng = <<>>
    /\ rpos = 0
    /\ nameMap = <<>>
    /\ lastCall = NoCall

CallObfuscateInteger ==
    /\ lit.fn = "none"
    /\ \E strategy \in 0..3, k \in Int63Draws :
          LET e == obfuscateInteger(IntOfText(lit.in), <<strategy, k>>, 0)
          IN  lit' = [lit EXCEPT !.fn = "integer", !.text = e.text]
    /\ UNCHANGED <<allocVars, pipeVars>>

NextInt == CallObfuscateInteger

SpecInt == InitInt /\ [][NextInt]_vars

\* the content of raw strings handed to the callback of
\* obfuscateBacktickStrings: a query followed by one character (any ASCII
\* character but NUL and the backquote, or a character of two, three or
\* four bytes), and blocks the callback leaves alone
RawCode == TextBytes("SELECT id FROM users ")
RawRunes == ((1..127) \ {96}) \cup {128, 233, 255, 2047, 8364, 66376}
RawInputs ==
    {RawCode \o EncodeRune(r) : r \in RawRunes}
    \cup {TextBytes("SELECT 1"), TextBytes("json:\"id\" SELECT id FROM users"),
          TextBytes("no markers in this text")}

\* the draws of rand.Intn(3) for a block: one strategy throughout, or each
\* in turn
RawStreams(n) == {[i \in 1..n |-> IF k = 3 THEN i ELSE k] : k \in 0..3}

InitRaw ==
    /\ NoMain
    /\ lit \in {[fn |-> "none", in |-> b, text |-> "", parts |-> <<>>] : b \in RawInputs}
    /\ rng = <<>>
    /\ rpos = 0
    /\ nameMap = <<>>
    /\ lastCall = NoCall

CallRawBlock ==
    /\ lit.fn = "none"
    /\ \E rs \in RawStreams(Len(lit.in)) :
          \E r \in {RawBlock(lit.in, rs, 0)} :
              lit' = [lit EXCEPT !.fn = IF r.encoded THEN "raw" ELSE "rawKept",
                                 !.text = r.text]
    /\ UNCHANGED <<allocVars, pipeVars>>

NextRaw == CallRawBlock

SpecRaw == InitRaw /\ [][NextRaw]_vars

\* integer literals of the language that the pattern \d+ accepts: decimal
\* ones around the two limits of the sweep, and ones with leading zeros
IntTokens ==
    {"0", "7", "10", "11", "42", "4200", "99999", "100000", "100001", "1234567",
     "00", "007", "012", "013", "0100", "0644", "0755", "0303240", "0303241"}
\* lines that hold one such literal: the text before it and the text after
IntContexts ==
    { <<"\tprintln(", ")">>, <<"\tprintln(x, ", ", y)">>, <<"\tx = ", " + y">>,
      <<"\treturn ", " - n">>, <<"\tfor i := 0; i < ", "; i++ {">>,
      <<"\tx := a[i : ", "]">>, <<"\tx := a[", "]">>, <<"\tx := ", "">> }
\* the raw draws of rand.Int63n explored by the sweep
SweepDraws == {0, 1, 499, 999}

InitInts ==
    /\ NoMain
    /\ lit \in {[fn |-> "none", in |-> <<c[1], u, c[2]>>, text |-> "", parts |-> <<>>] :
                   c \in IntContexts, u \in IntTokens}
    /\ rng = <<>>
    /\ rpos = 0
    /\ nameMap = <<>>
    /\ lastCall = NoCall

CallObfuscateIntegersInText ==
    /\ lit.fn = "none"
    /\ \E strategy \in 0..3, k \in SweepDraws :
          \E r \in {obfuscateIntegersInText(lit.in[1] \o lit.in[2] \o lit.in[3], FALSE,
                                            <<strategy, k>>, 0)} :
              lit' = [lit EXCEPT !.fn = "ints", !.text = r.text, !.parts = <<r.count>>]
    /\ UNCHANGED <<allocVars, pipeVars>>

NextInts == CallObfuscateIntegersInText

SpecInts == InitInts /\ [][NextInts]_vars

-----------------------------------------------------------------------------
(* Input files, as parseFile returns them and go/printer lays them out *)

PkgMain == <<T("package "), U("main", "pkgName", "nil", "package"), T("\n\n")>>
Builtin(name) == U(name, "ident", "nil", "builtin:" \o name)
Println == U("println", "callFun", "nil", "builtin:println")

\* the example of the README
ReadmeExample ==
    PkgMain \o
    << T("import "), I("fmt", ""),
       T("\n\nfunc "), D("main", "funcDecl", "Fun", "func:main"), T("() {\n\t"),
       D("message", "ident", "Var", "var:message"), T(" := \"Hello, World!\"\n\t"),
       D("count", "ident", "Var", "var:count"), T(" := 42\n\t"),
       U("fmt", "selX", "nil", "import:fmt"), T("."),
       U("Println", "callSel", "nil", "fmt.Println"), T("("),
       U("message", "ident", "Var", "var:message"), T(", "),
       U("count", "ident", "Var", "var:count"), T(")\n}\n") >>

\* two package variables with a short string and a small integer
PackageVarsFile ==
    PkgMain \o
    << G("var", "top"), T(" "), D("greeting", "valueSpec", "Var", "var:greeting"),
       T(" = \"Hi\"\n"),
       G("var", "top"), T(" "), D("answer", "valueSpec", "Var", "var:answer"),
       T(" = 42\n\nfunc "),
       D("main", "funcDecl", "Fun", "func:main"), T("() {\n\t"),
       Println, T("("), U("greeting", "ident", "Var", "var:greeting"), T(", "),
       U("answer", "ident", "Var", "var:answer"), T(")\n}\n") >>

\* a function used as a value and called
FuncValueFile ==
    PkgMain \o
    << T("func "), D("helper", "funcDecl", "Fun", "func:helper"), T("() {\n}\n\nfunc "),
       D("main", "funcDecl", "Fun", "func:main"), T("() {\n\t"),
       D("f", "ident", "Var", "var:f"), T(" := "),
       U("helper", "ident", "Fun", "func:helper"), T("\n\t"),
       U("f", "callFun", "Var", "var:f"), T("()\n\t"),
       U("helper", "callFun", "Fun", "func:helper"), T("()\n}\n") >>

\* a type that implements error
ErrorMethodFile ==
    PkgMain \o
    << T("type "), D("MyErr", "typeStruct", "Typ", "type:MyErr"), T(" struct {\n\t"),
       D("Msg", "field", "Var", "field:MyErr.Msg"), T(" "), Builtin("string"),
       T("\n}\n\nfunc ("),
       D("e", "ident", "Var", "var:e"), T(" "), U("MyErr", "ident", "Typ", "type:MyErr"),
       T(") "), D("Error", "methodDecl", "nil", "method:MyErr.Error"), T("() "),
       Builtin("string"), T(" {\n\treturn "),
       U("e", "selX", "Var", "var:e"), T("."), U("Msg", "sel", "nil", "field:MyErr.Msg"),
       T("\n}\n\nfunc "),
       D("main", "funcDecl", "Fun", "func:main"), T("() {\n\t"),
       Println, T("("), U("MyErr", "ident", "Typ", "type:MyErr"), T("{\"boom\"}."),
       U("Error", "callSel", "nil", "method:MyErr.Error"), T("())\n}\n") >>

\* a field of function type and a method of another type with its spelling
FieldCallFile ==
    PkgMain \o
    << T("type "), D("A", "typeStruct", "Typ", "type:A"), T(" struct {\n\t"),
       D("run", "field", "Var", "field:A.run"), T(" func()\n}\n\ntype "),
       D("B", "typeStruct", "Typ", "type:B"), T(" struct {\n}\n\nfunc ("),
       D("b", "ident", "Var", "var:run.b"), T(" "), U("B", "ident", "Typ", "type:B"),
       T(") "), D("run", "methodDecl", "nil", "method:B.run"), T("() {\n}\n\nfunc "),
       D("use", "funcDecl", "Fun", "func:use"), T("("),
       D("a", "ident", "Var", "var:use.a"), T(" "), U("A", "ident", "Typ", "type:A"),
       T(", "),
       D("b", "ident", "Var", "var:use.b"), T(" "), U("B", "ident", "Typ", "type:B"),
       T(") {\n\t"),
       U("a", "selX", "Var", "var:use.a"), T("."),
       U("run", "callSel", "nil", "field:A.run"), T("()\n\t"),
       U("b", "selX", "Var", "var:use.b"), T("."),
       U("run", "callSel", "nil", "method:B.run"), T("()\n}\n") >>

\* a local variable with the spelling of a field, and a keyed literal
FieldLocalFile ==
    PkgMain \o
    << T("type "), D("User", "typeStruct", "Typ", "type:User"), T(" struct {\n\t"),
       D("name", "field", "Var", "field:User.name"), T(" "), Builtin("string"),
       T("\n}\n\nfunc "),
       D("mk", "funcDecl", "Fun", "func:mk"), T("() "),
       U("User", "ident", "Typ", "type:User"), T(" {\n\t"),
       D("name", "ident", "Var", "var:mk.name"), T(" := \"bob\"\n\treturn "),
       U("User", "ident", "Typ", "type:User"), T("{"),
       U("name", "key", "Var", "field:User.name"), T(": "),
       U("name", "ident", "Var", "var:mk.name"), T("}\n}\n") >>

\* an import with a path, a named type, a constant, a format string and an
\* integer argument
HandlerFile ==
    PkgMain \o
    << T("import "), I("net/http", ""),
       T("\n\ntype "), D("ID", "typeAlias", "Typ", "type:ID"), T(" "), Builtin("int"),
       T("\n\n"), G("const", "top"), T(" "), D("limit", "valueSpec", "Con", "const:limit"),
       T(" = 500\n\nfunc "),
       D("check", "funcDecl", "Fun", "func:check"), T("("),
       D("id", "ident", "Var", "var:check.id"), T(" "), U("ID", "ident", "Typ", "type:ID"),
       T(", "), D("n", "ident", "Var", "var:check.n"), T(" "), Builtin("int"), T(") "),
       Builtin("int"), T(" {\n\treturn "), U("n", "ident", "Var", "var:check.n"),
       T("\n}\n\nfunc "),
       D("main", "funcDecl", "Fun", "func:main"), T("() {\n\t"),
       U("http", "selX", "nil", "import:net/http"), T("."),
       U("Handle", "callSel", "nil", "http.Handle"), T("(\"/v1/%d\", "),
       Builtin("nil"), T(")\n\t"),
       Println, T("("), U("check", "callFun", "Fun", "func:check"), T("("),
       U("limit", "ident", "Con", "const:limit"), T(", 4200))\n}\n") >>

\* a raw string that holds a query
RawQueryFile ==
    PkgMain \o
    << T("func "), D("main", "funcDecl", "Fun", "func:main"), T("() {\n\t"),
       D("q", "ident", "Var", "var:q"),
       T(" := " \o BQ \o "SELECT id FROM users" \o BQ \o "\n\t"),
       Println, T("("), U("q", "ident", "Var", "var:q"), T(", 77)\n}\n") >>

\* a call of a function of package flag with string arguments
FlagFile ==
    PkgMain \o
    << T("import "), I("flag", ""),
       T("\n\nfunc "), D("main", "funcDecl", "Fun", "func:main"), T("() {\n\t"),
       U("flag", "selX", "nil", "import:flag"), T("."),
       U("String", "callSel", "nil", "flag.String"),
       T("(\"mode\", \"\", \"run mode\")\n}\n") >>

\* a raw string of several lines that holds no code
RawHelpFile ==
    PkgMain \o
    << T("func "), D("main", "funcDecl", "Fun", "func:main"), T("() {\n\t"),
       D("help", "ident", "Var", "var:help"),
       T(" := " \o BQ \o "usage:\n  run \"fast\" mode\n  wait 500 ms\n" \o BQ \o "\n\t"),
       Println, T("("), U("help", "ident", "Var", "var:help"), T(")\n}\n") >>

Programs ==
    << ReadmeExample, PackageVarsFile, FuncValueFile, ErrorMethodFile,
       FieldCallFile, FieldLocalFile, HandlerFile, RawQueryFile, FlagFile,
       RawHelpFile >>

-----------------------------------------------------------------------------
(* One execution of main(), and a second one on the same input:            *)
(* src/goshield.go 776-849                                                 *)

\* the flag values: -no-ints, -no-strings, -no-vars, -no-functions, -no-imports
FlagSets ==
    [noInts : BOOLEAN, noStrings : BOOLEAN, noVars : BOOLEAN,
     noFunctions : BOOLEAN, noImports : BOOLEAN]

\* the -seed values explored
Seeds == {1, 2}

RECURSIVE Lcg(_, _)
\* n successive outputs of a linear congruential generator after state x
Lcg(x, n) ==
    IF n = 0 THEN <<>>
    ELSE LET y == (x * 75 + 74) % 65537 IN <<y>> \o Lcg(y, n - 1)

\* rand.Seed(int64(hashString(*seed))): the stream of raw draws a seed
\* fixes. An odd seed gives the generator's outputs; an even seed gives
\* each run of NameLen outputs twice, so that a candidate name is drawn
\* again right after it was issued.
Stream(seed) ==
    LET base == Lcg(seed, PipeStreamLen)
    IN  [i \in 1..PipeStreamLen |->
            IF seed % 2 = 1 THEN base[i]
            ELSE base[NameLen * ((i - 1) \div (2 * NameLen)) + ((i - 1) % NameLen) + 1]]

\* the state of a process at the first statement after parseFile
Start(p) ==
    /\ pc = "collectTypeNames"
    /\ file = Programs[p]
    /\ obf = NewObfuscator
    /\ nameMap = <<>>
    /\ structTypeMapping = <<>>
    /\ typeAliasMapping = <<>>
    /\ rpos = 0
    /\ output = ""

Init ==
    /\ prog \in 1..Len(Programs)
    /\ flags \in FlagSets
    /\ rng \in {Stream(seed) : seed \in Seeds}
    /\ run = 1
    /\ first = NoRun
    /\ Start(prog)
    /\ lastCall = NoCall
    /\ lit = NoLit

\* what a walk reads besides its own state
Ctx(off) == [rs |-> rng, off |-> off, o |-> obf, tam |-> typeAliasMapping,
             packageVars |-> {}]

CollectTypeNames ==
    /\ pc = "collectTypeNames"
    /\ obf' = collectTypeNames(obf, file)
    /\ pc' = "collectDeclaredFunctions"
    /\ UNCHANGED <<allocVars, litVars, run, flags, prog, file, structTypeMapping,
                   typeAliasMapping, output, first>>

CollectDeclaredFunctions ==
    /\ pc = "collectDeclaredFunctions"
    /\ obf' = collectDeclaredFunctions(obf, file)
    /\ pc' = "collectStructFields"
    /\ UNCHANGED <<allocVars, litVars, run, flags, prog, file, structTypeMapping,
                   typeAliasMapping, output, first>>

CollectStructFields ==
    /\ pc = "collectStructFields"
    /\ obf' = collectStructFields(obf, file)
    /\ pc' = "collectStructTypes"
    /\ UNCHANGED <<allocVars, litVars, run, flags, prog, file, structTypeMapping,
                   typeAliasMapping, output, first>>

CollectStructTypes ==
    /\ pc = "collectStructTypes"
    /\ \E off \in IterOffsets :
          LET r == collectStructTypes(file, nameMap, structTypeMapping,
                                      typeAliasMapping, rpos, Ctx(off))
          IN  /\ r.ok
              /\ nameMap' = r.nm
              /\ rpos' = r.pos
              /\ obf' = [obf EXCEPT !.structTypes = r.structTypes]
              /\ structTypeMapping' = r.stm
              /\ typeAliasMapping' = r.tam
    /\ pc' = "obfuscateConsts"
    /\ UNCHANGED <<rng, lastCall, litVars, run, flags, prog, file, output, first>>

ObfuscateConsts ==
    /\ pc = "obfuscateConsts"
    /\ file' = obfuscateConsts(file)
    /\ pc' = "obfuscateImports"
    /\ UNCHANGED <<allocVars, litVars, run, flags, prog, obf, structTypeMapping,
                   typeAliasMapping, output, first>>

ObfuscateImports ==
    /\ pc = "obfuscateImports"
    /\ \E off \in IterOffsets :
          LET r == obfuscateImports(file, nameMap, rpos, flags.noImports, Ctx(off))
          IN  /\ r.ok
              /\ file' = r.tree
              /\ nameMap' = r.nm
              /\ rpos' = r.pos
              /\ obf' = [obf EXCEPT !.importAliases = r.importAliases]
    /\ pc' = "updateImportReferences"
    /\ UNCHANGED <<rng, lastCall, litVars, run, flags, prog, structTypeMapping,
                   typeAliasMapping, output, first>>

UpdateImportReferences ==
    /\ pc = "updateImportReferences"
    /\ file' = updateImportReferences(file, obf.importAliases, flags.noImports)
    /\ pc' = "obfuscateStructTypes"
    /\ UNCHANGED <<allocVars, litVars, run, flags, prog, obf, structTypeMapping,
                   typeAliasMapping, output, first>>

ObfuscateStructTypes ==
    /\ pc = "obfuscateStructTypes"
    /\ file' = obfuscateStructTypes(file, structTypeMapping, typeAliasMapping)
    /\ pc' = "obfuscateVariables"
    /\ UNCHANGED <<allocVars, litVars, run, flags, prog, obf, structTypeMapping,
                   typeAliasMapping, output, first>>

ObfuscateVariables ==
    /\ pc = "obfuscateVariables"
    /\ \E off \in IterOffsets :
          LET r == obfuscateVariables(file, nameMap, rpos, flags.noVars, Ctx(off))
          IN  /\ r.ok
              /\ file' = r.tree
              /\ nameMap' = r.nm
              /\ rpos' = r.pos
    /\ pc' = "obfuscateFunctions"
    /\ UNCHANGED <<rng, lastCall, litVars, run, flags, prog, obf, structTypeMapping,
                   typeAliasMapping, output, first>>

ObfuscateFunctions ==
    /\ pc = "obfuscateFunctions"
    /\ \E off \in IterOffsets :
          LET r == obfuscateFunctions(file, nameMap, rpos, flags.noFunctions, Ctx(off))
          IN  /\ r.ok
              /\ file' = r.tree
              /\ nameMap' = r.nm
              /\ rpos' = r.pos
    /\ pc' = "writeAST"
    /\ UNCHANGED <<rng, lastCall, litVars, run, flags, prog, obf, structTypeMapping,
                   typeAliasMapping, output, first>>

\* writeAST, then ioutil.ReadFile of what it wrote
WriteAST ==
    /\ pc = "writeAST"
    /\ output' = Render(file, 1)
    /\ pc' = "obfuscateBacktickStrings"
    /\ UNCHANGED <<allocVars, litVars, run, flags, prog, file, obf, structTypeMapping,
                   typeAliasMapping, first>>

ObfuscateBacktickStrings ==
    /\ pc = "obfuscateBacktickStrings"
    /\ \E r \in {obfuscateBacktickStrings(output, flags.noStrings, rng, rpos)} :
          output' = r.text /\ rpos' = r.pos
    /\ pc' = "obfuscateStringsInText"
    /\ UNCHANGED <<rng, nameMap, lastCall, litVars, run, flags, prog, file, obf,
                   structTypeMapping, typeAliasMapping, first>>

ObfuscateStringsInText ==
    /\ pc = "obfuscateStringsInText"
    /\ \E r \in {obfuscateStringsInText(output, flags.noStrings, rng, rpos)} :
          output' = r.text /\ rpos' = r.pos
    /\ pc' = "obfuscateIntegersInText"
    /\ UNCHANGED <<rng, nameMap, lastCall, litVars, run, flags, prog, file, obf,
                   structTypeMapping, typeAliasMapping, first>>

\* the last sweep, then ioutil.WriteFile
ObfuscateIntegersInText ==
    /\ pc = "obfuscateIntegersInText"
    /\ \E r \in {obfuscateIntegersInText(output, flags.noInts, rng, rpos)} :
          output' = r.text /\ rpos' = r.pos
    /\ pc' = "done"
    /\ UNCHANGED <<rng, nameMap, lastCall, litVars, run, flags, prog, file, obf,
                   structTypeMapping, typeAliasMapping, first>>

\* the program is started again on the same input, seed and flags
Rerun ==
    /\ pc = "done"
    /\ run = 1
    /\ run' = 2
    /\ first' = [output |-> output, nameMap |-> nameMap]
    /\ pc' = "collectTypeNames"
    /\ file' = Programs[prog]
    /\ obf' = NewObfuscator
    /\ nameMap' = <<>>
    /\ structTypeMapping' = <<>>
    /\ typeAliasMapping' = <<>>
    /\ rpos' = 0
    /\ output' = ""
    /\ UNCHANGED <<rng, lastCall, litVars, flags, prog>>

Next ==
    \/ CollectTypeNames
    \/ CollectDeclaredFunctions
    \/ CollectStructFields
    \/ CollectStructTypes
    \/ ObfuscateConsts
    \/ ObfuscateImports
    \/ UpdateImportReferences
    \/ ObfuscateStructTypes
    \/ ObfuscateVariables
    \/ ObfuscateFunctions
    \/ WriteAST
    \/ ObfuscateBacktickStrings
    \/ ObfuscateStringsInText
    \/ ObfuscateIntegersInText
    \/ Rerun

Spec == Init /\ [][Next]_vars

\* the items of a tree that a pass gave another name
Changed(before, after) == {i \in 1..Len(before) : before[i].s # after[i].s}

\* main() from the first collection pass to the last sweep on input p under
\* flag values fl and draw stream rs: what each pass rewrote, and the result
MainEffects(p, fl, rs) ==
    LET t0 == Programs[p]
        o0 == collectStructFields(
                  collectDeclaredFunctions(collectTypeNames(NewObfuscator, t0), t0), t0)
        Cx(o, tam) == [rs |-> rs, off |-> 0, o |-> o, tam |-> tam, packageVars |-> {}]
        Ints(fx, i) == [fx EXCEPT !.ints = i.count, !.output = i.text, !.pos = i.pos]
        Strs(fx, q) ==
            Ints([fx EXCEPT !.strings = q.count],
                 obfuscateIntegersInText(q.text, fl.noInts, rs, q.pos))
        Raws(fx, b) ==
            Strs([fx EXCEPT !.raw = b.count],
                 obfuscateStringsInText(b.text, fl.noStrings, rs, b.pos))
        Funs(fx, t, f) ==
            Raws([fx EXCEPT !.funcs = Changed(t, f.tree), !.nameMap = f.nm,
                            !.tree = f.tree, !.ok = @ /\ f.ok],
                 obfuscateBacktickStrings(Render(f.tree, 1), fl.noStrings, rs, f.pos))
        Vars(fx, t, c, v) ==
            Funs([fx EXCEPT !.vars = Changed(t, v.tree), !.ok = @ /\ v.ok],
                 v.tree, obfuscateFunctions(v.tree, v.nm, v.pos, fl.noFunctions, c))
        Typs(fx, im, c, t) ==
            Vars(fx, t, c, obfuscateVariables(t, im.nm, im.pos, fl.noVars, c))
        Refs(fx, r, im, o, t1, t) ==
            Typs([fx EXCEPT !.imports = Changed(t1, t), !.ok = @ /\ im.ok],
                 im, Cx([o EXCEPT !.importAliases = im.importAliases], r.tam),
                 obfuscateStructTypes(t, r.stm, r.tam))
        Imps(fx, r, o, t1, im) ==
            Refs(fx, r, im, o, t1,
                 updateImportReferences(im.tree, im.importAliases, fl.noImports))
        Cons(fx, r, o, t1) ==
            Imps(fx, r, o, t1, obfuscateImports(t1, r.nm, r.pos, fl.noImports, Cx(o, r.tam)))
        Coll(r) ==
            Cons([imports |-> {}, vars |-> {}, funcs |-> {}, raw |-> 0, strings |-> 0,
                  ints |-> 0, nameMap |-> <<>>, tree |-> <<>>, output |-> "", pos |-> 0,
                  ok |-> r.ok],
                 r, [o0 EXCEPT !.structTypes = r.structTypes], obfuscateConsts(t0))
    IN  Coll(collectStructTypes(t0, <<>>, <<>>, <<>>, 0, Cx(o0, <<>>)))

-----------------------------------------------------------------------------
(* Claims about the literal encoders *)

\* C5: the expression returned by obfuscateStringLiteral(s) evaluates to
\* exactly s, for every s (empty, valid UTF-8 or not) and every choice of
\* strategy and offset; for empty s it is the empty-string literal.
StringRoundTrip ==
    lit.fn = "string" =>
        /\ StringExprVal(lit.text) = lit.in
        /\ (lit.in = <<>> => lit.text = "\"\"")

SpecTokens(s) ==
    LET ms == FindAllFormat(s, 1)
    IN  [i \in 1..Len(ms) |-> SubSeq(s, ms[i][1], ms[i][2] - 1)]
\* the values of the passthrough segments of a result, in order
RECURSIVE Passthrough(_)
Passthrough(parts) ==
    IF parts = <<>> THEN <<>>
    ELSE (IF parts[1].spec THEN <<StringExprVal(parts[1].text)>> ELSE <<>>)
         \o Passthrough(Tail(parts))

\* C7: in the result of obfuscateFormatString(s) the passthrough segments
\* are, in order, exactly the specifier tokens of s, each quoted verbatim,
\* and the concatenation of all segments evaluates to exactly s.
FormatRoundTrip ==
    lit.fn = "format" =>
        /\ (FindAllFormat(lit.in, 1) # <<>> =>
              /\ Passthrough(lit.parts) = SpecTokens(lit.in)
              /\ \A i \in 1..Len(lit.parts) :
                    lit.parts[i].spec =>
                        lit.parts[i].text
                            = "\"" \o BytesText(StringExprVal(lit.parts[i].text)) \o "\"")
        /\ StringExprVal(lit.text) = lit.in

-----------------------------------------------------------------------------
(* Claims about the allocator *)

\* C1: nameMap is injective: two distinct original names that have a
\* mapping never share a replacement.
NameMapInjective ==
    \A i, j \in 1..Len(nameMap) :
        i # j => /\ nameMap[i].orig # nameMap[j].orig
                 /\ nameMap[i].repl # nameMap[j].repl

\* C1 witness: two names are mapped and the last call drew a candidate that
\* was already issued and drew again.
NameMapInjectiveWitness ==
    /\ Len(nameMap) >= 2
    /\ lastCall.tries >= 2
    /\ ~lastCall.had

\* C9: nameMap is write-once and grow-only: no step removes or remaps a
\* key, and a call for a mapped name returns the mapped replacement,
\* leaves nameMap as it is and draws nothing.
NameMapWriteOnceStep ==
    /\ \A k \in MapKeys(nameMap) :
          MapHas(nameMap', k) /\ MapGet(nameMap', k) = MapGet(nameMap, k)
    /\ (lastCall'.name # "" /\ MapHas(nameMap, lastCall'.name)) =>
          /\ lastCall'.ret = MapGet(nameMap, lastCall'.name)
          /\ nameMap' = nameMap
          /\ rpos' = rpos
NameMapWriteOnce == [][NameMapWriteOnceStep]_vars

\* C9 witness: a call was made for a name that already had a mapping.
NameMapWriteOnceWitness ==
    /\ lastCall.had
    /\ MapHas(nameMap, lastCall.name)
    /\ Len(nameMap) >= 2

-----------------------------------------------------------------------------
(* Claims about the rename passes and the whole of main() *)

\* the tree passes of main() have all returned
RenameDone ==
    pc \in {"writeAST", "obfuscateBacktickStrings", "obfuscateStringsInText",
            "obfuscateIntegersInText", "done"}

\* no rename toggle is set
AllRenames == ~flags.noVars /\ ~flags.noFunctions /\ ~flags.noImports

\* C2: after the rename passes, with every rename toggle enabled, every
\* occurrence of a symbol whose declaration occurrence was rewritten carries
\* the replacement the declaration got, whether it is called, selected or
\* used as a plain value.
UseSitesFollowDeclaration ==
    (RenameDone /\ AllRenames) =>
        \A i, j \in 1..Len(file) :
            (/\ file[i].decl
             /\ file[i].s # file[i].orig
             /\ file[j].sym = file[i].sym)
            => file[j].s = file[i].s

EntryPoints == {"main", "init"}

\* C3: in every run and under every toggle setting no reserved name and no
\* entry-point name is a key of nameMap, and every identifier spelled so in
\* the input keeps its spelling.
ReservedNamesKept ==
    /\ MapKeys(nameMap) \cap (reservedNames \cup EntryPoints) = {}
    /\ \A i \in 1..Len(file) :
          (file[i].k = "id" /\ file[i].orig \in reservedNames \cup EntryPoints)
          => file[i].s = file[i].orig

\* the field names declared in the struct types of the input
FieldNameSet == NamesAt(Programs[prog], {"field"})

\* C4: no pass rewrites an identifier whose spelling is the name of a field
\* of some struct type, whatever else has that spelling in the program.
FieldSpellingsKept ==
    \A i \in 1..Len(file) :
        (file[i].k = "id" /\ file[i].orig \in FieldNameSet)
        => file[i].s = file[i].orig

\* C8: a second execution on the same input with the same flags and the
\* same seed ends with the same nameMap and the same output text as the
\* first, whatever the orders in which the ranges over nameMap ran.
SeedDeterminism ==
    (run = 2 /\ pc = "done") =>
        /\ output = first.output
        /\ nameMap = first.nameMap

\* a second execution has ended; it issued three names or more, and the
\* stream made the second allocation draw the first issued name again
SeedDeterminismWitness ==
    /\ run = 2
    /\ pc = "done"
    /\ Len(nameMap) >= 3
    /\ SubSeq(rng, 1, NameLen) = SubSeq(rng, NameLen + 1, 2 * NameLen)
    /\ output # Render(Programs[prog], 1)
    /\ output = first.output

\* the two inputs of the scenario: the README example and the file with two
\* package variables; the variables, how their declarations are laid out,
\* and the string
Scenarios ==
    << [strVar |-> "message", intVar |-> "count", lead |-> "\t", sep |-> " := ",
        str |-> "Hello, World!"],
       [strVar |-> "greeting", intVar |-> "answer", lead |-> "var ", sep |-> " = ",
        str |-> "Hi"] >>

\* what follows the given start on the first line of text that has it, or ""
InitializerOf(text, start) ==
    LET ls == Split(text)
        S == {k \in 1..Len(ls) : HasPrefix(ls[k], start)}
    IN  IF S = {} THEN ""
        ELSE SubSeq(ls[SetMin(S)], Len(start) + 1, Len(ls[SetMin(S)]))

\* the number of terms of a concatenation of quoted characters and conversions
Terms(e) ==
    Cardinality({k \in 1..Len(e) : Ch(e, k) = "\""}) \div 2
    + Cardinality({k \in 1..Len(e) : SubSeq(e, k, k + 6) = "string("})

\* C10: with every toggle enabled, the output for the scenario's input
\* declares both variables under generated names, initializes the string
\* variable with a concatenation of one term per character that evaluates
\* to the string, and the integer variable with one arithmetic expression
\* that evaluates to 42.
ScenarioEncoded ==
    (pc = "done" /\ flags = NoFlags /\ prog \in 1..Len(Scenarios)) =>
        LET sc == Scenarios[prog]
            es == InitializerOf(output, sc.lead \o MapGet(nameMap, sc.strVar) \o sc.sep)
            ei == InitializerOf(output, sc.lead \o MapGet(nameMap, sc.intVar) \o sc.sep)
        IN  /\ MapHas(nameMap, sc.strVar)
            /\ MapHas(nameMap, sc.intVar)
            /\ es # "" /\ Ch(es, 1) = "("
            /\ StringExprVal(es) = TextBytes(sc.str)
            /\ Terms(es) = Len(sc.str)
            /\ ei # "" /\ Ch(ei, 1) = "("
            /\ IntExprVal(ei) = IntOf(42)


-----------------------------------------------------------------------------
(* Claims about toggles, fields and the text sub-passes *)

\* an occurrence of a field: its declaration, a key of a literal, a selection
IsFieldOccurrence(it) == it.k = "id" /\ HasPrefix(it.sym, "field:")
\* an occurrence of a variable that some function declares
IsLocalOccurrence(it) ==
    /\ it.k = "id"
    /\ it.obj = "Var"
    /\ HasPrefix(it.sym, "var:")
    /\ it.pos # "valueSpec"

\* C11: when one spelling is a field name of a struct type and the name of
\* an unrelated local variable and variable renaming is enabled, the field
\* occurrences (declaration and literal key) stay unchanged and every
\* occurrence of the local variable carries its allocated replacement.
FieldKeptLocalRenamed ==
    (RenameDone /\ ~flags.noVars) =>
        \A i \in 1..Len(file) :
            (/\ file[i].orig \in FieldNameSet
             /\ \E j \in 1..Len(file) :
                   IsLocalOccurrence(file[j]) /\ file[j].orig = file[i].orig)
            =>  /\ IsFieldOccurrence(file[i]) => file[i].s = file[i].orig
                /\ IsLocalOccurrence(file[i]) =>
                      /\ MapHas(nameMap, file[i].orig)
                      /\ file[i].s = MapGet(nameMap, file[i].orig)
                      /\ file[i].s # file[i].orig


\* the flag of each toggle and the passes' effects that belong to it
Toggles == {"noInts", "noStrings", "noVars", "noFunctions", "noImports"}
Categories == {"ints", "raw", "strings", "vars", "funcs", "imports"}
OwnCategories(toggle) ==
    IF toggle = "noInts" THEN {"ints"}
    ELSE IF toggle = "noStrings" THEN {"raw", "strings"}
    ELSE IF toggle = "noVars" THEN {"vars"}
    ELSE IF toggle = "noFunctions" THEN {"funcs"}
    ELSE {"imports"}

\* the passes a toggle guards
OwnPasses(toggle) ==
    IF toggle = "noInts" THEN {"obfuscateIntegersInText"}
    ELSE IF toggle = "noStrings" THEN {"obfuscateBacktickStrings", "obfuscateStringsInText"}
    ELSE IF toggle = "noVars" THEN {"obfuscateVariables"}
    ELSE IF toggle = "noFunctions" THEN {"obfuscateFunctions"}
    ELSE {"obfuscateImports", "updateImportReferences"}

\* two executions rewrite the same items and as many literals in every
\* category but those of the toggle
SameElsewhere(a, b, toggle) ==
    \A cat \in Categories \ OwnCategories(toggle) : a[cat] = b[cat]

\* with import aliasing off the import specs are those of the input, in the
\* tree and in the text, and no qualifier of an import is rewritten
ImportsKept ==
    \A i \in 1..Len(file) :
        /\ file[i].k = "imp" =>
              /\ file[i] = Programs[prog][i]
              /\ pc = "done" => Contains(output, "import " \o Render(<<Programs[prog][i]>>, 1), 1)
        /\ (file[i].k = "id" /\ HasPrefix(file[i].sym, "import:")) =>
              file[i].s = file[i].orig

\* C12: for each of the five toggles, a pass whose toggle is off changes
\* neither the tree, the text, nameMap nor the stream position, and every
\* other pass rewrites in its own category what it rewrites with the toggle
\* on; with import aliasing off every import spec of the output is the
\* input's and no qualifier is rewritten to an alias.
ToggleStep ==
    /\ \A toggle \in Toggles :
          (flags[toggle] /\ pc \in OwnPasses(toggle)) =>
              /\ file' = file
              /\ output' = output
              /\ nameMap' = nameMap
              /\ rpos' = rpos
    /\ (pc' = "done" /\ run = 1) =>
          \A toggle \in Toggles :
              SameElsewhere(MainEffects(prog, [flags EXCEPT ![toggle] = FALSE], rng),
                            MainEffects(prog, [flags EXCEPT ![toggle] = TRUE], rng),
                            toggle)
    /\ flags.noImports => ImportsKept
TogglesIndependent == [][ToggleStep]_vars


\* C13: for every raw block that the embedded-code sub-pass classifies as
\* code and re-encodes, the parenthesized concatenation it produces
\* evaluates to exactly the bytes of the block's content, for every byte
\* value in the block and each of the three per-byte strategies.
RawRoundTrip ==
    lit.fn = "raw" => StringExprVal(lit.text) = lit.in


\* what the sweep left in the place of the literal of its input line
SweptToken == SubSeq(lit.text, Len(lit.in[1]) + 1, Len(lit.text) - Len(lit.in[3]))

\* C14: for every integer token the bare-integer sweep replaces, the
\* replacement evaluates to the value the token denotes as an integer
\* literal of the language, leading zeros included, and every token whose
\* value is <= 10 or > 100000 is left unchanged.
IntSweepValue ==
    lit.fn = "ints" =>
        /\ SubSeq(lit.text, 1, Len(lit.in[1])) = lit.in[1]
        /\ SweptToken # lit.in[2] =>
              IntExprVal(SweptToken) = IntOf(LitVal(lit.in[2]))
        /\ (LitVal(lit.in[2]) <= MinInt \/ LitVal(lit.in[2]) > MaxInt) =>
              SweptToken = lit.in[2]


RECURSIVE RawBlocks(_, _)
\* the contents of the raw strings of a text from index i on, in order
RawBlocks(t, i) ==
    LET a == IndexFrom(t, BQ, i)
        b == IF a = 0 THEN 0 ELSE IndexFrom(t, BQ, a + 1)
    IN  IF a = 0 \/ b = 0 THEN <<>>
        ELSE IF b = a + 1 THEN RawBlocks(t, a + 1)
        ELSE <<SubSeq(t, a + 1, b - 1)>> \o RawBlocks(t, b + 1)

\* the raw strings that the embedded-code sub-pass does not encode
KeptBlocks(t) == SelectSeq(RawBlocks(t, 1), LAMBDA blk : ~RawEncoded(TextBytes(blk)))

\* C15: the quoted-string sweep and the bare-integer sweep replace only
\* literals in code position: the content of every raw block that the
\* embedded-code sub-pass left un-encoded, every line of it, is
\* byte-identical after both sweeps.
SweepsKeepRawStep ==
    pc \in {"obfuscateStringsInText", "obfuscateIntegersInText"} =>
        KeptBlocks(output') = KeptBlocks(output)
SweepsKeepRaw == [][SweepsKeepRawStep]_vars


\* a line holds a quoting character or the text string(
IntLineMarked(line) == \E k \in 1..Len(IntLineMarkers) : Contains(line, IntLineMarkers[k], 1)

\* a line holds a numeric code in a conversion that the pattern of the
\* integer sweep matches and whose value is within the limits of the sweep
CodeInReach(line) ==
    \E a \in 1..Len(line) :
        /\ IntMatchAt(line, a)
        /\ a > 6 /\ SubSeq(line, a - 6, a) = "string("
        /\ IntMatch(SubSeq(line, a, SkipDigits(line, a + 1)), <<0, 0>>, 0).count = 1

\* C16: with the three text sub-passes in their fixed order the integer
\* sweep never modifies a numeric code that the string sub-passes emitted:
\* every line that the embedded-code encoder or the string sweep wrote to
\* holds a quoting character or the text string( when the integer sweep
\* runs, and the integer sweep leaves every such line as it is.
EmittedCodesStep ==
    LET Encoded(before, after) ==
            \A k \in 1..Len(after) :
                (\A j \in 1..Len(before) : before[j] # after[k]) => IntLineMarked(after[k])
        Swept(before, after) ==
            /\ Len(after) = Len(before)
            /\ \A k \in 1..Len(after) :
                  (IntLineMarked(before[k]) \/ after[k] # before[k])
                  => IntLineMarked(after[k])
        Skipped(before, after) ==
            /\ Len(after) = Len(before)
            /\ \A k \in 1..Len(after) : IntLineMarked(before[k]) => after[k] = before[k]
    IN  /\ pc = "obfuscateBacktickStrings" => Encoded(Split(output), Split(output'))
        /\ pc = "obfuscateStringsInText" => Swept(Split(output), Split(output'))
        /\ pc = "obfuscateIntegersInText" => Skipped(Split(output), Split(output'))
EmittedCodesKept == [][EmittedCodesStep]_vars

\* C16 witness: all three sub-passes ran, and a line of the result holds an
\* emitted numeric code that the pattern of the integer sweep matches
EmittedCodesWitness ==
    /\ pc = "done"
    /\ ~flags.noStrings
    /\ ~flags.noInts
    /\ \E k \in 1..Len(Split(output)) : CodeInReach(Split(output)[k])


\* a step of the loop that returns: the name is the one inserted for the
\* original, and it was not issued before; a step that stays in the loop
\* leaves nameMap as it is
LoopReturnStep ==
    InLoop =>
        /\ lastCall'.ret # "" =>
              /\ lastCall'.ret \notin MapValues(nameMap)
              /\ nameMap' = MapPut(nameMap, lastCall.name, lastCall'.ret)
        /\ lastCall'.ret = "" => nameMap' = nameMap /\ lastCall'.name = lastCall.name

\* C17: a call of getObfuscatedName for a name with no mapping draws
\* candidates again while the candidate is an issued replacement and
\* returns in the end, when the generator is fair and fewer replacements
\* are issued than there are candidates; the name it returns and inserts
\* was never issued before.
LoopReturns ==
    /\ [][LoopReturnStep]_vars
    /\ (InLoop /\ Cardinality(MapValues(nameMap)) < Cardinality(Candidates))
          ~> (lastCall.ret # "" /\ MapHas(nameMap, lastCall.name))

\* C17 witness: a call returned a new name after it drew issued candidates
LoopReturnsWitness ==
    /\ lastCall.ret # ""
    /\ ~lastCall.had
    /\ lastCall.tries = MaxTries
    /\ Len(nameMap) = Cardinality(AllocNames)
    /\ MapGet(nameMap, lastCall.name) = lastCall.ret

====
